---------------------------- MODULE Spec2Model ----------------------------
(***************************************************************************)
(* Model of the instagram-ai-news pipeline: the RSS scraper's              *)
(* deduplication (scraper.py), the Gemini summarizer with its retry and    *)
(* fallback-model policy, the trend ranker/selector with backfill and the  *)
(* caption composer (content_gen.py), and the steps of main (main.py).     *)
(*                                                                         *)
(* Text is modelled as a sequence of one-character strings, so that        *)
(* lower(), substring tests, len() and difflib's matching are computed,    *)
(* not assumed.                                                            *)
(***************************************************************************)
EXTENDS Integers, Sequences, FiniteSets, TLC

VARIABLES
    \* ---- scraper.scrape_feeds --------------------------------------------
    all_articles,        \* articles collected from the feeds, in feed order
    unique_articles,     \* result of deduplicate(all_articles), then sorted
    scrape_pc,           \* "collected" | "deduped" | "sorted" | "off"
    \* ---- content_gen.analyze_trends --------------------------------------
    GEMINI_API_KEY,      \* TRUE iff the environment holds a non-empty key
    articles,            \* the input list; article_text is mutated in place
    pc,                  \* position inside analyze_trends; "raised" once
                         \* an exception has left it
    topic_articles,      \* dict topic -> member list, in insertion order
    ranked_topics,       \* topic_articles.items() sorted by member count
    rank_i,              \* index of the next ranked topic to examine
    selected_articles,   \* list of (topic, topic_arts, best)
    used_article_titles, \* set of titles already used by a representative
    sum_i,               \* index of the selected article being summarized
    model_i,             \* summarize_with_gemini: index into models_to_try
    attempt,             \* summarize_with_gemini: attempt number, 0 or 1
    gemini_log,          \* ghost: calls and sleeps made for the current article
    ai_result,           \* value returned by summarize_with_gemini (or None)
    trends,              \* the list being returned
    fetch_log,           \* ghost: positions of the articles fetched, in order
    \* ---- main.main -------------------------------------------------------
    main_pc,             \* position inside main, "off" outside of it
    no_images,           \* args.no_images
    caption,             \* value returned by generate_caption
    caption_file,        \* what was written to OUTPUT_DIR/caption.txt
    image_paths,         \* number of slide images generated
    exit_code,           \* argument of sys.exit, NotExited while running
    failure              \* ghost: the step of main that failed, or "none"

scrape_vars == <<all_articles, unique_articles, scrape_pc>>

trend_vars == <<GEMINI_API_KEY, articles, pc, topic_articles, ranked_topics,
                rank_i, selected_articles, used_article_titles, sum_i, model_i, attempt, gemini_log, ai_result, trends,
                fetch_log>>

vars == <<all_articles, unique_articles, scrape_pc,
          GEMINI_API_KEY, articles, pc, topic_articles, ranked_topics,
          rank_i, selected_articles, used_article_titles, sum_i, model_i, attempt, gemini_log, ai_result, trends,
          fetch_log,
          main_pc, no_images, caption, caption_file, image_paths, exit_code,
          failure>>

main_vars == <<main_pc, no_images, caption, caption_file, image_paths,
               exit_code, failure>>

\* Python's None, where a topic name is expected, where a summarizer result
\* is expected, and where an article position is expected.
None == "None"
NoResult == [none |-> TRUE]
NoBest == 0

\* exit_code while the process has not called sys.exit.
NotExited == -1

\* Outside of main.main.
MainIdle ==
    /\ main_pc = "off"
    /\ no_images = FALSE
    /\ caption = NoResult
    /\ caption_file = NoResult
    /\ image_paths = 0
    /\ exit_code = NotExited
    /\ failure = "none"

-----------------------------------------------------------------------------
(* Generic helpers                                                         *)

Range(s) == {s[i] : i \in 1..Len(s)}

Min(a, b) == IF a <= b THEN a ELSE b

\* All sequences over S of length 0..n.
SeqsUpTo(S, n) == UNION {[1..k -> S] : k \in 0..n}

\* s[:n]
Take(s, n) == SubSeq(s, 1, Min(n, Len(s)))

UpperChars == <<"A","B","C","D","E","F","G","H","I","J","K","L","M",
                "N","O","P","Q","R","S","T","U","V","W","X","Y","Z">>
LowerChars == <<"a","b","c","d","e","f","g","h","i","j","k","l","m",
                "n","o","p","q","r","s","t","u","v","w","x","y","z">>

\* str.lower() on one character
LowerOf == [c \in Range(UpperChars) |->
               LowerChars[CHOOSE i \in 1..Len(UpperChars) : UpperChars[i] = c]]

LowerChar(c) == IF c \in DOMAIN LowerOf THEN LowerOf[c] ELSE c

\* str.lower()
Lower(s) == [i \in 1..Len(s) |-> LowerChar(s[i])]

\* key in s  (substring test)
Contains(s, key) ==
    \E i \in 1..(Len(s) - Len(key) + 1) : SubSeq(s, i, i + Len(key) - 1) = key

-----------------------------------------------------------------------------
(* difflib.SequenceMatcher(None, a, b).ratio(), as is_similar uses it.     *)
(* Positions are 1-based; a block [lo, hi) holds positions lo..hi-1.       *)
(* The autojunk heuristic only acts on a second string of 200 or more      *)
(* characters; titles are shorter, so no character is junk.                *)

RECURSIVE RunLen(_, _, _, _, _, _)
\* Length of the common run of a and b starting at a[i], b[j] inside the blocks.
RunLen(a, b, i, j, ahi, bhi) ==
    IF i < ahi /\ j < bhi /\ a[i] = b[j]
    THEN 1 + RunLen(a, b, i + 1, j + 1, ahi, bhi)
    ELSE 0

\* find_longest_match(alo, ahi, blo, bhi): the longest matching block; of
\* all maximal blocks the one that starts earliest in a, and of those the
\* one that starts earliest in b.  <<i, j, k>>, with k = 0 when none.
find_longest_match(a, b, alo, ahi, blo, bhi) ==
    LET cells == {<<i, j>> : i \in alo..(ahi - 1), j \in blo..(bhi - 1)}
        len == [c \in cells |-> RunLen(a, b, c[1], c[2], ahi, bhi)]
        sizes == {len[c] : c \in cells}
        best == IF cells = {} THEN 0
                ELSE CHOOSE k \in sizes : \A k2 \in sizes : k2 <= k
    IN  IF best = 0 THEN <<alo, blo, 0>>
        ELSE LET top == {c \in cells : len[c] = best}
                 i0 == CHOOSE i \in {c[1] : c \in top} :
                          \A c \in top : c[1] >= i
                 j0 == CHOOSE j \in {c[2] : c \in {d \in top : d[1] = i0}} :
                          \A c \in top : c[1] = i0 => c[2] >= j
             IN  <<i0, j0, best>>

RECURSIVE matching_size(_, _, _, _, _, _)
\* Sum of the sizes of get_matching_blocks(): the longest block, then
\* recursively the pieces to its left and to its right.
matching_size(a, b, alo, ahi, blo, bhi) ==
    LET m == find_longest_match(a, b, alo, ahi, blo, bhi)
    IN  IF m[3] = 0 THEN 0
        ELSE m[3]
             + matching_size(a, b, alo, m[1], blo, m[2])
             + matching_size(a, b, m[1] + m[3], ahi, m[2] + m[3], bhi)

\* ratio() > num/den, in integers: ratio() = 2.0 * matches / length, and 1.0
\* when both strings are empty.
RatioAbove(a, b, num, den) ==
    LET length == Len(a) + Len(b)
        matches == matching_size(a, b, 1, Len(a) + 1, 1, Len(b) + 1)
    IN  IF length = 0 THEN den > num
        ELSE 2 * matches * den > num * length

\* is_similar(title1, title2, threshold = 0.6)
is_similar(title1, title2) == RatioAbove(Lower(title1), Lower(title2), 6, 10)

-----------------------------------------------------------------------------
(* scraper.deduplicate and the tail of scraper.scrape_feeds                *)

RECURSIVE DedupFrom_LastOnly(_, _, _)
\* Mutant of DedupFrom: an article is compared with the last kept one only.
DedupFrom_LastOnly(arts, i, unique) ==
    IF i > Len(arts) THEN unique
    ELSE LET is_dup == /\ unique # <<>>
                       /\ is_similar(arts[i].title, unique[Len(unique)].title)
         IN  DedupFrom_LastOnly(arts, i + 1,
                       IF is_dup THEN unique ELSE Append(unique, arts[i]))

RECURSIVE DedupFrom(_, _, _)
\* The loop of deduplicate from position i on, with `unique` built so far.
DedupFrom(arts, i, unique) ==
    IF i > Len(arts) THEN unique
    ELSE LET is_dup == \E k \in 1..Len(unique) :
                           is_similar(arts[i].title, unique[k].title)
         IN  DedupFrom(arts, i + 1,
                       IF is_dup THEN unique ELSE Append(unique, arts[i]))

deduplicate(arts) == DedupFrom(arts, 1, <<>>)

-----------------------------------------------------------------------------
(* Text helpers of content_gen.py                                          *)

Whitespace == {" ", "\t", "\n"}

Digits == {"0","1","2","3","4","5","6","7","8","9"}

Ellipsis == <<".", ".", ".">>

RECURSIVE LStrip(_)
LStrip(s) == IF s # <<>> /\ s[1] \in Whitespace THEN LStrip(Tail(s)) ELSE s

RECURSIVE RStrip(_)
RStrip(s) ==
    IF s # <<>> /\ s[Len(s)] \in Whitespace
    THEN RStrip(SubSeq(s, 1, Len(s) - 1))
    ELSE s

\* str.strip()
Strip(s) == RStrip(LStrip(s))

\* str.rfind(sep): 0-based index of the last occurrence of sep, or -1.
RFind(s, sep) ==
    LET hits == {i \in 1..(Len(s) - Len(sep) + 1) :
                    SubSeq(s, i, i + Len(sep) - 1) = sep}
    IN  IF hits = {} THEN -1
        ELSE (CHOOSE i \in hits : \A k \in hits : k <= i) - 1

SentenceSeps == << <<".", " ">>, <<"!", " ">>, <<"?", " ">> >>

\* Mutant of truncate_at_sentence: the cut at the last space does not heed
\* min_len.
truncate_at_sentence_AnySpace(text, max_len, min_len) ==
    LET truncated == Take(text, max_len)
        found == {k \in 1..Len(SentenceSeps) :
                     RFind(truncated, SentenceSeps[k]) >= min_len}
        last_space == RFind(truncated, <<" ">>)
    IN  IF Len(text) <= max_len THEN text
        ELSE IF found # {}
        THEN LET k == CHOOSE k \in found : \A k2 \in found : k <= k2
             IN  Strip(Take(truncated, RFind(truncated, SentenceSeps[k]) + 1))
        ELSE IF last_space >= 0
        THEN Strip(Take(truncated, last_space)) \o Ellipsis
        ELSE Strip(truncated) \o Ellipsis

\* truncate_at_sentence(text, max_len, min_len)
truncate_at_sentence(text, max_len, min_len) ==
    LET truncated == Take(text, max_len)
        found == {k \in 1..Len(SentenceSeps) :
                     RFind(truncated, SentenceSeps[k]) >= min_len}
        last_space == RFind(truncated, <<" ">>)
    IN  IF Len(text) <= max_len THEN text
        ELSE IF found # {}
        THEN LET k == CHOOSE k \in found : \A k2 \in found : k <= k2
             IN  Strip(Take(truncated, RFind(truncated, SentenceSeps[k]) + 1))
        ELSE IF last_space >= min_len
        THEN Strip(Take(truncated, last_space)) \o Ellipsis
        ELSE Strip(truncated) \o Ellipsis

\* Default min_len of truncate_at_sentence.
TruncateMinLen == 80

\* Length to which analyze_trends truncates a description into an insight.
InsightMaxLen == 300

-----------------------------------------------------------------------------
(* content_gen._extract_takeaways_from_text                                *)

RECURSIVE SplitSentencesFrom(_, _, _)
\* re.split(r'(?<=[.!?])\s+', text): cut at every run of whitespace that
\* directly follows '.', '!' or '?'.  `from` is where the current piece starts.
SplitSentencesFrom(text, from, out) ==
    LET cuts == {i \in from..Len(text) :
                    /\ text[i] \in Whitespace
                    /\ i > 1
                    /\ text[i - 1] \in {".", "!", "?"}}
    IN  IF cuts = {} THEN Append(out, SubSeq(text, from, Len(text)))
        ELSE LET cut == CHOOSE i \in cuts : \A k \in cuts : i <= k
                 rest == {j \in cut..Len(text) : text[j] \notin Whitespace}
                 nxt == IF rest = {} THEN Len(text) + 1
                        ELSE CHOOSE j \in rest : \A k \in rest : j <= k
             IN  SplitSentencesFrom(text, nxt,
                                    Append(out, SubSeq(text, from, cut - 1)))

SplitSentences(text) == SplitSentencesFrom(text, 1, <<>>)

skip_patterns == <<
        <<"c","o","o","k","i","e">>,
        <<"s","u","b","s","c","r","i","b","e">>,
        <<"s","i","g","n"," ","u","p">>,
        <<"n","e","w","s","l","e","t","t","e","r">>,
        <<"c","l","i","c","k"," ","h","e","r","e">>,
        <<"r","e","a","d"," ","m","o","r","e">>,
        <<"a","d","v","e","r","t","i","s","e","m","e","n","t">>,
        <<"s","p","o","n","s","o","r","e","d">>,
        <<"t","e","r","m","s"," ","o","f">>,
        <<"p","r","i","v","a","c","y"," ","p","o","l","i","c","y">>,
        <<"c","o","p","y","r","i","g","h","t">>,
        <<"f","o","l","l","o","w"," ","u","s">>,
        <<"f","o","l","l","o","w"," ","e","q","u","i","t","y">>,
        <<"t","w","i","t","t","e","r">>,
        <<"t","h","r","e","a","d","s">>,
        <<"@","e","q","u","i","t","y","p","o","d">>,
        <<"@","t","e","c","h","c","r","u","n","c","h">>,
        <<"c","o","m","m","e","n","t">>,
        <<"r","e","l","a","t","e","d",":">>,
        <<"s","e","e"," ","a","l","s","o">>,
        <<"t","a","b","l","e"," ","o","f"," ","c","o","n","t","e","n","t","s">>,
        <<"p","h","o","t","o"," ","b","y">>,
        <<"i","m","a","g","e"," ","c","r","e","d","i","t">>,
        <<"g","e","t","t","y">>,
        <<"s","h","u","t","t","e","r","s","t","o","c","k">>,
        <<"a","p","p","e","a","r","e","d"," ","f","i","r","s","t"," ","o","n">>,
        <<"t","h","i","s"," ","a","r","t","i","c","l","e">>,
        <<"w","e"," ","m","a","y"," ","e","a","r","n">>,
        <<"d","i","s","c","l","o","s","u","r","e">>,
        <<"a","f","f","i","l","i","a","t","e">>,
        <<"p","o","d","c","a","s","t">>,
        <<"e","p","i","s","o","d","e">> >>

signal_words == <<
        <<"b","i","l","l","i","o","n">>,
        <<"m","i","l","l","i","o","n">>,
        <<"p","e","r","c","e","n","t">>,
        <<"%">>,
        <<"$">>,
        <<"f","i","r","s","t">>,
        <<"n","e","w">>,
        <<"l","a","u","n","c","h">>,
        <<"a","n","n","o","u","n","c","e">>,
        <<"r","e","l","e","a","s","e">>,
        <<"i","n","c","r","e","a","s","e">>,
        <<"d","e","c","r","e","a","s","e">>,
        <<"g","r","o","w">>,
        <<"d","e","c","l","i","n","e">>,
        <<"a","c","c","o","r","d","i","n","g">>,
        <<"r","e","p","o","r","t">>,
        <<"s","t","u","d","y">>,
        <<"r","e","s","e","a","r","c","h">>,
        <<"k","e","y">>,
        <<"m","a","j","o","r">>,
        <<"s","i","g","n","i","f","i","c","a","n","t">>,
        <<"c","r","i","t","i","c","a","l">>,
        <<"e","x","p","e","c","t">>,
        <<"p","r","e","d","i","c","t">>,
        <<"p","l","a","n">>,
        <<"p","a","r","t","n","e","r">> >>

\* Shortest text from which takeaways are extracted.
TakeawayMinText == 100
\* Bounds on the length of a candidate sentence.
SentenceMinLen == 40
SentenceMaxLen == 150
\* Length of the sentence prefix remembered in seen_starts.
StartLen == 30
\* Prefix of the lowercased description that is kept, and the prefix of
\* sentence and description that are compared.
DescKeep == 100
CompareLen == 80
\* Number of takeaways returned, their length and the truncation floor.
MaxTakeaways == 3
TakeawayMaxLen == 85
TakeawayMinLen == 30

RECURSIVE FilterSentences(_, _, _, _, _)
\* The filtering loop: candidates, given the sentences still to look at.
\* A sentence's start is recorded in seen_starts before the similarity test.
FilterSentences(sentences, i, desc_lower, seen_starts, candidates) ==
    IF i > Len(sentences) THEN candidates
    ELSE LET s == Strip(sentences[i])
             s_lower == Lower(s)
             start == Take(s_lower, StartLen)
         IN  IF Len(s) < SentenceMinLen \/ Len(s) > SentenceMaxLen
             THEN FilterSentences(sentences, i + 1, desc_lower, seen_starts, candidates)
             ELSE IF \E p \in 1..Len(skip_patterns) : Contains(s_lower, skip_patterns[p])
             THEN FilterSentences(sentences, i + 1, desc_lower, seen_starts, candidates)
             ELSE IF start \in seen_starts
             THEN FilterSentences(sentences, i + 1, desc_lower, seen_starts, candidates)
             ELSE IF /\ desc_lower # <<>>
                     /\ RatioAbove(Take(s_lower, CompareLen),
                                   Take(desc_lower, CompareLen), 5, 10)
             THEN FilterSentences(sentences, i + 1, desc_lower,
                                  seen_starts \cup {start}, candidates)
             ELSE FilterSentences(sentences, i + 1, desc_lower,
                                  seen_starts \cup {start}, Append(candidates, s))

\* Score of a candidate: one per signal word it contains, two for a digit.
SentenceScore(s) ==
    LET s_lower == Lower(s)
    IN  Cardinality({w \in 1..Len(signal_words) : Contains(s_lower, signal_words[w])})
        + (IF \E i \in 1..Len(s) : s[i] \in Digits THEN 2 ELSE 0)

\* Lexicographic >= on pairs of integers.
KeyGE(k1, k2) == k1[1] > k2[1] \/ (k1[1] = k2[1] /\ k1[2] >= k2[2])

RECURSIVE InsertDesc(_, _, _)
\* Insert index x into an index list sorted by key descending, after the
\* indices whose key is greater or equal.
InsertDesc(order, keys, x) ==
    IF order = <<>> THEN <<x>>
    ELSE IF KeyGE(keys[order[1]], keys[x])
         THEN <<order[1]>> \o InsertDesc(Tail(order), keys, x)
         ELSE <<x>> \o order

RECURSIVE SortOrderDesc(_, _)
\* The order in which sorted(..., reverse=True) (stable) lists positions 1..n.
SortOrderDesc(keys, n) ==
    IF n = 0 THEN <<>> ELSE InsertDesc(SortOrderDesc(keys, n - 1), keys, n)

\* sorted(items, key=..., reverse=True), the keys given position by position.
SortedDesc(items, keys) ==
    LET order == SortOrderDesc(keys, Len(items))
    IN  [i \in 1..Len(items) |-> items[order[i]]]

_extract_takeaways_from_text(article_text, description) ==
    IF Len(article_text) < TakeawayMinText THEN <<>>
    ELSE LET all == SplitSentences(article_text)
             sentences == IF Len(all) > 4 THEN SubSeq(all, 3, Len(all))
                          ELSE SubSeq(all, 2, Len(all))
             desc_lower == Take(Lower(description), DescKeep)
             candidates == FilterSentences(sentences, 1, desc_lower, {}, <<>>)
             keys == [i \in 1..Len(candidates) |-> <<SentenceScore(candidates[i]), 0>>]
             scored == SortedDesc(candidates, keys)
         IN  [i \in 1..Min(MaxTakeaways, Len(scored)) |->
                 truncate_at_sentence(scored[i], TakeawayMaxLen, TakeawayMinLen)]

-----------------------------------------------------------------------------
(* Topic mapping                                                           *)

\* TOPIC_MAP, as the list of its (keyword, topic) items in definition order.
TOPIC_MAP == <<
       <<<<"o","p","e","n","a","i">>, "AI & LLMs">>,
       <<<<"c","h","a","t","g","p","t">>, "AI & LLMs">>,
       <<<<"g","p","t">>, "AI & LLMs">>,
       <<<<"l","l","m">>, "AI & LLMs">>,
       <<<<"l","l","m","s">>, "AI & LLMs">>,
       <<<<"c","l","a","u","d","e">>, "AI & LLMs">>,
       <<<<"a","n","t","h","r","o","p","i","c">>, "AI & LLMs">>,
       <<<<"g","e","m","i","n","i">>, "AI & LLMs">>,
       <<<<"c","o","p","i","l","o","t">>, "AI & LLMs">>,
       <<<<"l","a","n","g","u","a","g","e"," ","m","o","d","e","l">>, "AI & LLMs">>,
       <<<<"g","e","n","e","r","a","t","i","v","e">>, "Generative AI">>,
       <<<<"d","i","f","f","u","s","i","o","n">>, "Generative AI">>,
       <<<<"m","i","d","j","o","u","r","n","e","y">>, "Generative AI">>,
       <<<<"i","m","a","g","e"," ","g","e","n","e","r","a","t","i","o","n">>, "Generative AI">>,
       <<<<"d","e","e","p","f","a","k","e">>, "Generative AI">>,
       <<<<"n","v","i","d","i","a">>, "AI Hardware">>,
       <<<<"c","h","i","p">>, "AI Hardware">>,
       <<<<"c","h","i","p","s">>, "AI Hardware">>,
       <<<<"g","p","u">>, "AI Hardware">>,
       <<<<"t","p","u">>, "AI Hardware">>,
       <<<<"s","e","m","i","c","o","n","d","u","c","t","o","r">>, "AI Hardware">>,
       <<<<"s","a","f","e","t","y">>, "AI Safety & Ethics">>,
       <<<<"r","e","g","u","l","a","t","i","o","n">>, "AI Safety & Ethics">>,
       <<<<"b","i","a","s">>, "AI Safety & Ethics">>,
       <<<<"e","t","h","i","c","s">>, "AI Safety & Ethics">>,
       <<<<"a","l","i","g","n","m","e","n","t">>, "AI Safety & Ethics">>,
       <<<<"p","r","i","v","a","c","y">>, "AI Safety & Ethics">>,
       <<<<"a","u","t","o","n","o","m","o","u","s">>, "Autonomous & Robotics">>,
       <<<<"r","o","b","o","t">>, "Autonomous & Robotics">>,
       <<<<"r","o","b","o","t","i","c","s">>, "Autonomous & Robotics">>,
       <<<<"s","e","l","f","-","d","r","i","v","i","n","g">>, "Autonomous & Robotics">>,
       <<<<"d","r","o","n","e">>, "Autonomous & Robotics">>,
       <<<<"d","r","o","n","e","s">>, "Autonomous & Robotics">>,
       <<<<"a","g","e","n","t","s">>, "AI Agents">>,
       <<<<"a","g","e","n","t">>, "AI Agents">>,
       <<<<"a","g","e","n","t","i","c">>, "AI Agents">>,
       <<<<"s","t","a","r","t","u","p">>, "AI Startups & Funding">>,
       <<<<"s","t","a","r","t","u","p","s">>, "AI Startups & Funding">>,
       <<<<"f","u","n","d","i","n","g">>, "AI Startups & Funding">>,
       <<<<"v","e","n","t","u","r","e">>, "AI Startups & Funding">>,
       <<<<"m","i","l","l","i","o","n">>, "AI Startups & Funding">>,
       <<<<"b","i","l","l","i","o","n">>, "AI Startups & Funding">>,
       <<<<"r","a","i","s","e","s">>, "AI Startups & Funding">>,
       <<<<"s","e","r","i","e","s">>, "AI Startups & Funding">>,
       <<<<"d","e","f","e","n","s","e">>, "AI & Defense">>,
       <<<<"m","i","l","i","t","a","r","y">>, "AI & Defense">>,
       <<<<"p","e","n","t","a","g","o","n">>, "AI & Defense">>,
       <<<<"w","e","a","p","o","n","s">>, "AI & Defense">>,
       <<<<"k","u","b","e","r","n","e","t","e","s">>, "Cloud & Containers">>,
       <<<<"d","o","c","k","e","r">>, "Cloud & Containers">>,
       <<<<"c","o","n","t","a","i","n","e","r">>, "Cloud & Containers">>,
       <<<<"c","o","n","t","a","i","n","e","r","s">>, "Cloud & Containers">>,
       <<<<"c","l","o","u","d">>, "Cloud & Containers">>,
       <<<<"a","w","s">>, "Cloud & Containers">>,
       <<<<"a","z","u","r","e">>, "Cloud & Containers">>,
       <<<<"g","c","p">>, "Cloud & Containers">>,
       <<<<"d","e","v","o","p","s">>, "DevOps & CI/CD">>,
       <<<<"c","i","c","d">>, "DevOps & CI/CD">>,
       <<<<"p","i","p","e","l","i","n","e">>, "DevOps & CI/CD">>,
       <<<<"d","e","p","l","o","y","m","e","n","t">>, "DevOps & CI/CD">>,
       <<<<"t","e","r","r","a","f","o","r","m">>, "Infrastructure as Code">>,
       <<<<"i","n","f","r","a","s","t","r","u","c","t","u","r","e">>, "Infrastructure as Code">>,
       <<<<"i","a","c">>, "Infrastructure as Code">>,
       <<<<"a","n","s","i","b","l","e">>, "Infrastructure as Code">>,
       <<<<"s","e","c","u","r","i","t","y">>, "Security & Compliance">>,
       <<<<"v","u","l","n","e","r","a","b","i","l","i","t","y">>, "Security & Compliance">>,
       <<<<"c","y","b","e","r","s","e","c","u","r","i","t","y">>, "Security & Compliance">>,
       <<<<"b","r","e","a","c","h">>, "Security & Compliance">>,
       <<<<"o","b","s","e","r","v","a","b","i","l","i","t","y">>, "Observability & Monitoring">>,
       <<<<"m","o","n","i","t","o","r","i","n","g">>, "Observability & Monitoring">>,
       <<<<"l","o","g","g","i","n","g">>, "Observability & Monitoring">>,
       <<<<"m","e","t","r","i","c","s">>, "Observability & Monitoring">>,
       <<<<"d","a","t","a"," ","c","e","n","t","e","r">>, "Data Centers & Energy">>,
       <<<<"e","n","e","r","g","y">>, "Data Centers & Energy">>,
       <<<<"c","l","i","m","a","t","e">>, "Data Centers & Energy">>,
       <<<<"e","n","v","i","r","o","n","m","e","n","t">>, "Data Centers & Energy">>,
       <<<<"s","e","a","r","c","h">>, "AI in Search">>,
       <<<<"g","o","o","g","l","e">>, "AI in Search">>,
       <<<<"p","e","r","p","l","e","x","i","t","y">>, "AI in Search">>,
       <<<<"m","e","t","a">>, "Big Tech & AI">>,
       <<<<"a","p","p","l","e">>, "Big Tech & AI">>,
       <<<<"m","i","c","r","o","s","o","f","t">>, "Big Tech & AI">>,
       <<<<"r","e","s","e","a","r","c","h">>, "AI Research">>,
       <<<<"p","a","p","e","r">>, "AI Research">>,
       <<<<"b","r","e","a","k","t","h","r","o","u","g","h">>, "AI Research">> >>

\* get_topic_for_keyword: TOPIC_MAP.get(keyword.lower())
get_topic_for_keyword(keyword) ==
    LET key == Lower(keyword)
        hits == {e \in 1..Len(TOPIC_MAP) : TOPIC_MAP[e][1] = key}
    IN  IF hits = {} THEN None ELSE TOPIC_MAP[CHOOSE e \in hits : TRUE][2]

\* Mutant of matched_topics: the title is not scanned.
matched_topics_KeywordsOnly(article) ==
    {get_topic_for_keyword(article.keywords[k]) :
        k \in 1..Len(article.keywords)} \ {None}

\* matched_topics of one article: topics of its keywords, and topics of the
\* TOPIC_MAP keys that occur in the lowercased title.
matched_topics(article) ==
    LET title_lower == Lower(article.title)
        by_keyword == {get_topic_for_keyword(article.keywords[k]) :
                          k \in 1..Len(article.keywords)} \ {None}
        by_title == {TOPIC_MAP[e][2] :
                        e \in {e \in 1..Len(TOPIC_MAP) :
                                  Contains(title_lower, TOPIC_MAP[e][1])}}
    IN  by_keyword \cup by_title

-----------------------------------------------------------------------------
(* Inputs of the scraper specification                                     *)

\* Longest list of collected articles explored.
MaxScraped == 3

T_bca == <<"b","c","a">>
T_aba == <<"a","b","a">>
T_ABA == <<"A","B","A">>
T_raises50M == <<"X"," ","r","a","i","s","e","s"," ","$","5","0","M">>
T_Raises50Million == <<"X"," ","R","a","i","s","e","s"," ","$","5","0"," ","M","i","l","l","i","o","n">>
T_MetaChips == <<"M","e","t","a"," ","a","n","n","o","u","n","c","e","s"," ","n","e","w"," ","c","h","i","p","s">>
T_OpenAIChip == <<"O","p","e","n","A","I"," ","l","a","u","n","c","h","e","s"," ","n","e","w"," ","A","I"," ","c","h","i","p">>

\* Article records as scrape_feeds builds them (the fields deduplicate and
\* the final sort read).  The titles: the near-identical pair of the funding
\* scenario, a pair differing only in case, and two pairs (one of short
\* titles, one of headlines) on which difflib's ratio depends on the order
\* of its arguments.
ScrapedArticle ==
    { [title |-> T_bca,             published |-> 1],
      [title |-> T_aba,             published |-> 2],
      [title |-> T_ABA,             published |-> 1],
      [title |-> T_raises50M,       published |-> 2],
      [title |-> T_Raises50Million, published |-> 1],
      [title |-> T_MetaChips,       published |-> 2],
      [title |-> T_OpenAIChip,      published |-> 1] }

TrendsIdle ==
    /\ GEMINI_API_KEY = FALSE
    /\ articles = <<>>
    /\ pc = "off"
    /\ topic_articles = <<>>
    /\ ranked_topics = <<>>
    /\ rank_i = 0
    /\ selected_articles = <<>>
    /\ used_article_titles = {}
    /\ sum_i = 0
    /\ model_i = 0
    /\ attempt = 0
    /\ gemini_log = <<>>
    /\ ai_result = NoResult
    /\ trends = <<>>
    /\ fetch_log = <<>>

\* scrape_feeds after its feed loop: all_articles is collected.
InitScrape ==
    /\ all_articles \in SeqsUpTo(ScrapedArticle, MaxScraped)
    /\ unique_articles = <<>>
    /\ scrape_pc = "collected"
    /\ TrendsIdle
    /\ MainIdle

\* unique_articles = deduplicate(all_articles)
Deduplicate ==
    /\ scrape_pc = "collected"
    /\ unique_articles' = deduplicate(all_articles)
    /\ scrape_pc' = "deduped"
    /\ UNCHANGED all_articles
    /\ UNCHANGED trend_vars
    /\ UNCHANGED main_vars

\* unique_articles.sort(key=lambda a: a["published"], reverse=True)
SortUnique ==
    /\ scrape_pc = "deduped"
    /\ unique_articles' =
          SortedDesc(unique_articles,
                     [i \in 1..Len(unique_articles) |->
                         <<unique_articles[i].published, 0>>])
    /\ scrape_pc' = "sorted"
    /\ UNCHANGED all_articles
    /\ UNCHANGED trend_vars
    /\ UNCHANGED main_vars

NextScrape == Deduplicate \/ SortUnique

SpecScrape == InitScrape /\ [][NextScrape]_vars

-----------------------------------------------------------------------------
(* Claims about deduplication (checked under SpecScrape)                   *)

\* The articles of arts at the positions in K, in order.
RECURSIVE Restrict(_, _, _)
Restrict(arts, K, i) ==
    IF i > Len(arts) THEN <<>>
    ELSE (IF i \in K THEN <<arts[i]>> ELSE <<>>) \o Restrict(arts, K, i + 1)

\* C4: after deduplicate, no two articles of the working set have titles
\* whose similarity ratio exceeds 0.6, in either argument order.
C4_NoSimilarPairSurvives ==
    scrape_pc \in {"deduped", "sorted"} =>
        \A i, j \in 1..Len(unique_articles) :
            i # j => ~is_similar(unique_articles[i].title,
                                 unique_articles[j].title)

\* C5: the output of deduplicate is the input restricted to a set K of kept
\* positions (an order-preserving subsequence); every dropped article has a
\* similar title to an earlier kept one; and of two near-identical articles
\* that no other article resembles, exactly the first is kept.
C5_DedupKeepsFirst ==
    scrape_pc = "deduped" =>
        LET n == Len(all_articles)
            sim == [p \in (1..n) \X (1..n) |->
                       is_similar(all_articles[p[1]].title,
                                  all_articles[p[2]].title)]
            alike(i, j) == sim[<<i, j>>] \/ sim[<<j, i>>]
        IN  \E K \in SUBSET (1..n) :
              /\ unique_articles = Restrict(all_articles, K, 1)
              /\ \A i \in (1..n) \ K : \E j \in K : j < i /\ sim[<<i, j>>]
              /\ \A i, j \in 1..n :
                    ( /\ i < j
                      /\ sim[<<i, j>>] /\ sim[<<j, i>>]
                      /\ \A k \in (1..n) \ {i, j} :
                            ~alike(k, i) /\ ~alike(k, j) )
                    => (i \in K /\ j \notin K)

\* C5 witness: the funding scenario, with an unrelated article in between;
\* the later of the two near-identical articles has been dropped.
C5_Witness ==
    /\ scrape_pc = "deduped"
    /\ Len(all_articles) = 3
    /\ all_articles[1].title = T_raises50M
    /\ all_articles[2].title = T_MetaChips
    /\ all_articles[3].title = T_Raises50Million
    /\ Len(unique_articles) = 2
    /\ unique_articles[1].title = T_raises50M
    /\ unique_articles[2].title = T_MetaChips

-----------------------------------------------------------------------------
(* content_gen.analyze_trends: configuration and inputs                    *)

NUM_CAROUSEL_SLIDES == 5

\* num_trends = NUM_CAROUSEL_SLIDES - 1
num_trends == NUM_CAROUSEL_SLIDES - 1

\* Extra ranked topics examined beyond num_trends.
WindowSlack == 3

GEMINI_MODEL == "gemini-2.0-flash"

\* models_to_try = [GEMINI_MODEL, "gemini-2.0-flash-lite"]
models_to_try == <<GEMINI_MODEL, "gemini-2.0-flash-lite">>

\* Attempts per model: range(2).
AttemptsPerModel == 2

\* Shortest text summarize_with_gemini sends to the model.
SummarizeMinText == 50

\* Longest input list explored in which an article may occur several times,
\* and longest input list explored with an API key.
MaxArticles == 4
MaxKeyedArticles == 2

DescLong == <<"T","h","i","s"," ","l","o","n","g"," ","d","e","s","c","r","i","p","t","i","o","n"," ","h","a","s"," ","m","o","r","e"," ","t","h","a","n"," ","f","i","f","t","y"," ","c","h","a","r","a","c","t","e","r","s"," ","i","n"," ","i","t",".">>
DescShort == <<"A"," ","s","h","o","r","t"," ","s","u","m","m","a","r","y",".">>
BodyText == <<"T","h","e"," ","c","h","i","p"," ","s","h","i","p","s"," ","i","n"," ","M","a","y","."," ","I","t"," ","i","s"," ","f","a","s","t","!"," ","A","n","a","l","y","s","t","s"," ","e","x","p","e","c","t"," ","g","r","o","w","t","h",".",".",".">>

\* Articles as scrape_feeds builds them (article_text empty until fetched).
\* keywords are the lowercase words of three letters or more, stop words
\* removed, of title, description and entry categories.
A_GptChip ==
    [title |-> <<"G","P","T"," ","c","h","i","p">>, description |-> DescShort, link |-> "https://a/1",
     source |-> "TechCrunch", published |-> 3,
     keywords |-> <<<<"g","p","t">>, <<"c","h","i","p">>, <<"s","h","o","r","t">>, <<"s","u","m","m","a","r","y">>>>,
     entry_categories |-> <<>>, article_text |-> <<>>]
A_NewGpt ==
    [title |-> <<"N","e","w"," ","G","P","T">>, description |-> DescLong, link |-> "",
     source |-> "Wired", published |-> 4,
     keywords |-> <<<<"g","p","t">>, <<"l","o","n","g">>, <<"d","e","s","c","r","i","p","t","i","o","n">>, <<"f","i","f","t","y">>, <<"c","h","a","r","a","c","t","e","r","s">>>>,
     entry_categories |-> <<>>, article_text |-> <<>>]
A_Robot ==
    [title |-> <<"R","o","b","o","t">>, description |-> DescShort, link |-> "",
     source |-> "Wired", published |-> 2,
     keywords |-> <<<<"r","o","b","o","t">>, <<"s","h","o","r","t">>, <<"s","u","m","m","a","r","y">>>>,
     entry_categories |-> <<>>, article_text |-> <<>>]
A_Aws ==
    [title |-> <<"A","W","S">>, description |-> <<>>, link |-> "",
     source |-> "TechCrunch", published |-> 1,
     keywords |-> <<<<"a","w","s">>>>,
     entry_categories |-> <<>>, article_text |-> <<>>]
A_News ==
    [title |-> <<"N","e","w","s">>, description |-> DescShort, link |-> "",
     source |-> "Wired", published |-> 2,
     keywords |-> <<<<"n","e","w","s">>, <<"s","h","o","r","t">>, <<"s","u","m","m","a","r","y">>, <<"g","a","d","g","e","t","s">>, <<"r","e","v","i","e","w","s">>>>,
     entry_categories |-> <<"Gadgets", "Reviews">>, article_text |-> <<>>]
A_Misc ==
    [title |-> <<"M","i","s","c">>, description |-> <<>>, link |-> "",
     source |-> "TechCrunch", published |-> 1,
     keywords |-> <<<<"m","i","s","c">>>>,
     entry_categories |-> <<>>, article_text |-> <<>>]

ArticlePool == {A_GptChip, A_NewGpt, A_Robot, A_Aws, A_News, A_Misc}

\* Further articles for the classification: the article of the scenario
\* "OpenAI Releases New Model", one on containers, one whose title holds a
\* table keyword inside a longer word only, one that has a table keyword
\* only in its keyword list (from the description), one matching nothing.
S_OpenAIModel ==
    [title |-> <<"O","p","e","n","A","I"," ","R","e","l","e","a","s","e","s"," ","N","e","w"," ","M","o","d","e","l">>, description |-> DescShort, link |-> "",
     source |-> "Wired", published |-> 1,
     keywords |-> <<<<"o","p","e","n","a","i">>, <<"r","e","l","e","a","s","e","s">>, <<"m","o","d","e","l">>, <<"s","h","o","r","t">>, <<"s","u","m","m","a","r","y">>>>,
     entry_categories |-> <<>>, article_text |-> <<>>]
S_Kubernetes ==
    [title |-> <<"K","u","b","e","r","n","e","t","e","s"," ","s","h","i","p","s">>, description |-> DescShort, link |-> "",
     source |-> "Wired", published |-> 1,
     keywords |-> <<<<"k","u","b","e","r","n","e","t","e","s">>, <<"s","h","i","p","s">>, <<"s","h","o","r","t">>, <<"s","u","m","m","a","r","y">>>>,
     entry_categories |-> <<>>, article_text |-> <<>>]
S_Chipotle ==
    [title |-> <<"C","h","i","p","o","t","l","e"," ","e","a","r","n","i","n","g","s">>, description |-> DescShort, link |-> "",
     source |-> "Wired", published |-> 1,
     keywords |-> <<<<"c","h","i","p","o","t","l","e">>, <<"e","a","r","n","i","n","g","s">>, <<"s","h","o","r","t">>, <<"s","u","m","m","a","r","y">>>>,
     entry_categories |-> <<>>, article_text |-> <<>>]
S_Results ==
    [title |-> <<"Q","u","a","r","t","e","r","l","y"," ","r","e","s","u","l","t","s">>, description |-> <<"N","v","i","d","i","a"," ","g","r","o","w","s",".">>, link |-> "",
     source |-> "Wired", published |-> 1,
     keywords |-> <<<<"q","u","a","r","t","e","r","l","y">>, <<"r","e","s","u","l","t","s">>, <<"n","v","i","d","i","a">>, <<"g","r","o","w","s">>>>,
     entry_categories |-> <<>>, article_text |-> <<>>]
S_Paint ==
    [title |-> <<"P","a","i","n","t"," ","d","r","y","i","n","g">>, description |-> <<>>, link |-> "",
     source |-> "Wired", published |-> 1,
     keywords |-> <<<<"p","a","i","n","t">>, <<"d","r","y","i","n","g">>>>,
     entry_categories |-> <<>>, article_text |-> <<>>]

ClassifySamples ==
    ArticlePool \cup {S_OpenAIModel, S_Kubernetes, S_Chipotle, S_Results, S_Paint}

\* Pages behind the links of the articles used for the extractive fallback,
\* as fetch_article_text extracts them (runs of whitespace are single
\* spaces): a body with four usable sentences, one with a sentence that has
\* no space after its 30th character, one with a space as 85th character of
\* a sentence, one shorter than 100 characters, one with two sentences
\* of which one is the description, and one with two sentences that share
\* their first 30 characters, the first of them close to the description
\* DescLike.
PageMany == <<"I","n","t","r","o"," ","o","n","e"," ","i","s"," ","s","h","o","r","t","."," ","I","n","t","r","o"," ","t","w","o"," ","i","s"," ","s","h","o","r","t","."," ","T","h","e"," ","c","o","m","p","a","n","y"," ","s","h","i","p","p","e","d"," ","4","0"," ","n","e","w"," ","a","c","c","e","l","e","r","a","t","o","r"," ","b","o","a","r","d","s"," ","t","o"," ","t","h","r","e","e"," ","l","a","b","s"," ","i","n"," ","M","a","r","c","h","."," ","A","n","a","l","y","s","t","s"," ","e","x","p","e","c","t"," ","t","h","e"," ","m","a","r","k","e","t"," ","f","o","r"," ","i","n","f","e","r","e","n","c","e"," ","h","a","r","d","w","a","r","e"," ","t","o"," ","g","r","o","w"," ","b","y"," ","2","0"," ","p","e","r","c","e","n","t"," ","n","e","x","t"," ","y","e","a","r",","," ","a","c","c","o","r","d","i","n","g"," ","t","o"," ","a"," ","r","e","p","o","r","t"," ","p","u","b","l","i","s","h","e","d"," ","o","n"," ","M","o","n","d","a","y","."," ","S","u","b","s","c","r","i","b","e"," ","t","o"," ","o","u","r"," ","n","e","w","s","l","e","t","t","e","r"," ","f","o","r"," ","m","o","r","e"," ","s","t","o","r","i","e","s"," ","l","i","k","e"," ","t","h","i","s"," ","o","n","e"," ","e","v","e","r","y"," ","w","e","e","k","."," ","E","n","g","i","n","e","e","r","s"," ","s","a","i","d"," ","t","h","e"," ","d","e","s","i","g","n"," ","t","o","o","k"," ","t","w","o"," ","y","e","a","r","s"," ","a","n","d"," ","a"," ","g","r","e","a","t"," ","d","e","a","l"," ","o","f"," ","p","a","t","i","e","n","c","e","."," ","T","h","e"," ","l","a","u","n","c","h"," ","i","s"," ","p","l","a","n","n","e","d"," ","f","o","r"," ","t","h","e"," ","s","e","c","o","n","d"," ","q","u","a","r","t","e","r"," ","o","f"," ","t","h","e"," ","c","o","m","i","n","g"," ","f","i","s","c","a","l"," ","y","e","a","r",".">>
PageToken == <<"I","n","t","r","o"," ","o","n","e"," ","i","s"," ","s","h","o","r","t","."," ","R","e","a","d"," ","i","t"," ","a","t"," ","e","x","a","m","p","l","e",".","c","o","m","/","a","/","v","e","r","y","/","l","o","n","g","/","p","a","t","h","/","t","h","a","t","/","k","e","e","p","s","/","g","o","i","n","g","/","a","n","d","/","g","o","i","n","g","/","a","n","d","/","g","o","i","n","g","/","w","i","t","h","o","u","t","/","a","n","y","/","s","p","a","c","e","/","o","k"," ","n","o","w","."," ","T","h","a","t"," ","i","s"," ","a","l","l"," ","t","h","e","r","e"," ","i","s"," ","t","o"," ","i","t",".">>
PageEdge == <<"I","n","t","r","o"," ","o","n","e"," ","i","s"," ","s","h","o","r","t","."," ","R","e","g","u","l","a","t","o","r","s"," ","i","n"," ","s","e","v","e","r","a","l"," ","c","o","u","n","t","r","i","e","s"," ","a","r","e"," ","s","t","i","l","l"," ","r","e","v","i","e","w","i","n","g"," ","t","h","e"," ","p","r","o","p","o","s","e","d"," ","m","e","r","g","e","r"," ","o","f"," ","t","h","e"," ","c","h","i","p","s"," ","a","n","d"," ","w","i","l","l"," ","d","e","c","i","d","e"," ","s","o","o","n"," ","e","n","o","u","g","h","."," ","T","h","a","t"," ","i","s"," ","a","l","l"," ","t","h","e","r","e"," ","i","s"," ","t","o"," ","i","t",".">>
PageShort == <<"I","n","t","r","o"," ","o","n","e"," ","i","s"," ","s","h","o","r","t","."," ","T","h","i","s"," ","b","o","d","y"," ","i","s"," ","f","a","r"," ","t","o","o"," ","s","h","o","r","t"," ","t","o"," ","b","e"," ","u","s","e","d",".">>
PagePlain == <<"I","n","t","r","o"," ","o","n","e"," ","i","s"," ","s","h","o","r","t","."," ","T","h","e"," ","m","o","d","e","l"," ","a","n","s","w","e","r","s"," ","q","u","e","s","t","i","o","n","s"," ","a","b","o","u","t"," ","l","o","n","g"," ","d","o","c","u","m","e","n","t","s"," ","i","n"," ","u","n","d","e","r"," ","a"," ","s","e","c","o","n","d","."," ","N","o","t","h","i","n","g"," ","e","l","s","e"," ","w","a","s"," ","s","a","i","d"," ","a","t"," ","t","h","e"," ","e","v","e","n","t",","," ","t","h","e"," ","o","r","g","a","n","i","s","e","r","s"," ","c","o","n","f","i","r","m","e","d"," ","l","a","t","e","r",".">>

PageEcho == <<"I","n","t","r","o"," ","o","n","e"," ","i","s"," ","s","h","o","r","t","."," ","R","e","p","o","r","t","s"," ","s","a","y"," ","t","h","e"," ","m","o","d","e","l"," ","a","n","s","w","e","r","s"," ","q","u","e","s","t","i","o","n","s"," ","a","b","o","u","t"," ","l","o","n","g"," ","d","o","c","u","m","e","n","t","s"," ","i","n"," ","u","n","d","e","r"," ","a"," ","s","e","c","o","n","d","."," ","R","e","p","o","r","t","s"," ","s","a","y"," ","t","h","e"," ","m","o","d","e","l"," ","a","n","s","w","e","r","s"," ","9","5",",","0","0","0"," ","o","f"," ","9","7",",","5","0","0"," ","q","u","e","r","i","e","s"," ","b","y"," ","F","r","i","d","a","y",","," ","u","p"," ","4","2","%",".">>

PageBodies ==
    [link \in {"https://p/many", "https://p/token", "https://p/edge",
               "https://p/short", "https://p/plain", "https://p/echo"} |->
        CASE link = "https://p/many" -> PageMany
          [] link = "https://p/token" -> PageToken
          [] link = "https://p/edge" -> PageEdge
          [] link = "https://p/short" -> PageShort
          [] link = "https://p/plain" -> PagePlain
          [] link = "https://p/echo" -> PageEcho]

DescLike == <<"T","h","e"," ","m","o","d","e","l"," ","a","n","s","w","e","r","s"," ","q","u","e","s","t","i","o","n","s"," ","a","b","o","u","t"," ","l","o","n","g"," ","d","o","c","u","m","e","n","t","s"," ","i","n"," ","u","n","d","e","r"," ","a"," ","s","e","c","o","n","d",".">>

\* The articles that lead to those pages, with no description, with the
\* description that is a sentence of PagePlain, and with another one.
PageArticle(link, description, words) ==
    [title |-> <<"N","e","w"," ","G","P","T">>, description |-> description, link |-> link,
     source |-> "Wired", published |-> 1,
     keywords |-> <<<<"g","p","t">>>> \o words,
     entry_categories |-> <<>>, article_text |-> <<>>]

PageArticles ==
    {PageArticle(link, d[1], d[2]) :
        link \in DOMAIN PageBodies,
        d \in { <<<<>>, <<>>>>,
                <<DescLike, <<<<"m","o","d","e","l">>, <<"a","n","s","w","e","r","s">>, <<"q","u","e","s","t","i","o","n","s">>, <<"l","o","n","g">>, <<"d","o","c","u","m","e","n","t","s">>, <<"s","e","c","o","n","d">>>>>>,
                <<DescShort, <<<<"s","h","o","r","t">>, <<"s","u","m","m","a","r","y">>>>>> }}

\* What fetch_article_text may return for a non-empty link: the extracted
\* body, or "" on any failure.
FetchResults == {<<>>, BodyText}

\* A summarizer reply that carries all three fields.
AI_Reply ==
    [headline |-> <<"A","I"," ","h","e","a","d","l","i","n","e">>, insight |-> <<"A","I"," ","i","n","s","i","g","h","t",".">>,
     takeaways |-> <<<<"o","n","e">>, <<"t","w","o">>, <<"t","h","r","e","e">>, <<"f","o","u","r">>>>]

AIResults == {AI_Reply}

-----------------------------------------------------------------------------
(* content_gen.analyze_trends: grouping and ranking                        *)

\* All orders in which a set can be iterated.
RECURSIVE Orderings(_)
Orderings(S) ==
    IF S = {} THEN {<<>>}
    ELSE UNION {{<<x>> \o rest : rest \in Orderings(S \ {x})} : x \in S}

\* topic in topic_articles
HasTopic(ta, topic) == \E e \in 1..Len(ta) : ta[e].topic = topic

\* if topic not in topic_articles: topic_articles[topic] = []
\* topic_articles[topic].append(article)
AddToTopic(ta, topic, a) ==
    IF HasTopic(ta, topic)
    THEN [e \in 1..Len(ta) |->
             IF ta[e].topic = topic
             THEN [ta[e] EXCEPT !.arts = Append(@, a)]
             ELSE ta[e]]
    ELSE Append(ta, [topic |-> topic, arts |-> <<a>>])

RECURSIVE AddToTopics(_, _, _)
\* The loop `for topic in matched_topics`, for one iteration order.
AddToTopics(ta, order, a) ==
    IF order = <<>> THEN ta
    ELSE AddToTopics(AddToTopic(ta, order[1], a), Tail(order), a)

\* matched_topics of the articles of the pool, computed once.
PoolTopics == [article \in ArticlePool |-> matched_topics(article)]

\* matched_topics(article), looked up when the article is one of the pool.
MatchedTopicsOf(article) ==
    IF article \in ArticlePool THEN PoolTopics[article]
    ELSE matched_topics(article)

RECURSIVE GroupFrom(_, _, _)
\* The dicts the grouping loop can build from article a on.  matched_topics
\* is a set of strings: the order in which Python iterates it is not fixed
\* (string hashing is randomised per process), so every order is possible.
GroupFrom(arts, a, ta) ==
    IF a > Len(arts) THEN {ta}
    ELSE UNION {GroupFrom(arts, a + 1, AddToTopics(ta, order, a)) :
                    order \in Orderings(MatchedTopicsOf(arts[a]))}

\* Mutant of RankTopics: the sort is ascending (reverse=True is missing).
RankTopics_Ascending(ta) ==
    SortedDesc(ta, [e \in 1..Len(ta) |-> <<0 - Len(ta[e].arts), 0>>])

\* sorted(topic_articles.items(), key=lambda x: len(x[1]), reverse=True)
RankTopics(ta) ==
    SortedDesc(ta, [e \in 1..Len(ta) |-> <<Len(ta[e].arts), 0>>])

\* The grouping loop, then ranked_topics = sorted(...); trends,
\* used_article_titles and selected_articles start empty.
GroupAndRank ==
    /\ pc = "start"
    /\ topic_articles' \in GroupFrom(articles, 1, <<>>)
    /\ ranked_topics' = RankTopics(topic_articles')
    /\ rank_i' = 1
    /\ pc' = "select"
    /\ UNCHANGED <<GEMINI_API_KEY, fetch_log, articles, selected_articles,
                   used_article_titles, sum_i, model_i, attempt,
                   gemini_log, ai_result, trends>>
    /\ UNCHANGED scrape_vars
    /\ UNCHANGED main_vars

-----------------------------------------------------------------------------
(* content_gen.analyze_trends: first pass, one representative per topic    *)

\* Mutant of Window: every ranked topic is examined.
Window_Whole == Len(ranked_topics)

\* ranked_topics[:num_trends + 3]
Window == Min(Len(ranked_topics), num_trends + WindowSlack)

\* Mutant of Candidates: the members are walked in input order, unsorted.
Candidates_Unsorted(arts, topic_arts) == topic_arts

\* sorted(topic_arts, key=lambda a: (len(description), published), reverse=True)
Candidates(arts, topic_arts) ==
    SortedDesc(topic_arts,
               [k \in 1..Len(topic_arts) |->
                   <<Len(arts[topic_arts[k]].description),
                     arts[topic_arts[k]].published>>])

\* Mutant of BestCandidate: the used titles are not consulted.
BestCandidate_AnyTitle(arts, topic_arts, used) ==
    Candidates(arts, topic_arts)[1]

\* The first candidate whose title is not used yet, or NoBest.
BestCandidate(arts, topic_arts, used) ==
    LET candidates == Candidates(arts, topic_arts)
        free == {k \in 1..Len(candidates) : arts[candidates[k]].title \notin used}
    IN  IF free = {} THEN NoBest
        ELSE candidates[CHOOSE k \in free : \A k2 \in free : k <= k2]

\* One iteration of `for topic, topic_arts in ranked_topics[:num_trends + 3]`.
SelectForTopic ==
    /\ pc = "select"
    /\ rank_i <= Window
    /\ Len(selected_articles) < num_trends
    /\ LET entry == ranked_topics[rank_i]
           best == BestCandidate(articles, entry.arts, used_article_titles)
       IN  IF best = NoBest
           THEN UNCHANGED <<used_article_titles, selected_articles>>
           ELSE /\ used_article_titles' =
                      used_article_titles \cup {articles[best].title}
                /\ selected_articles' =
                      Append(selected_articles,
                             [topic |-> entry.topic, arts |-> entry.arts,
                              best |-> best])
    /\ rank_i' = rank_i + 1
    /\ UNCHANGED <<GEMINI_API_KEY, fetch_log, articles, pc, topic_articles, ranked_topics,
                   sum_i, model_i, attempt, gemini_log, ai_result,
                   trends>>
    /\ UNCHANGED scrape_vars
    /\ UNCHANGED main_vars

-----------------------------------------------------------------------------
(* scraper.fetch_article_texts(articles_to_fetch)                          *)

\* What fetch_article_text(link) can return: "" for an empty link and on
\* every failure, the extracted body otherwise.
fetch_article_text(link) ==
    IF link = "" THEN {<<>>}
    ELSE IF link \in DOMAIN PageBodies THEN {<<>>, PageBodies[link]}
    ELSE FetchResults

RECURSIVE FetchFrom_AllMembers(_, _, _, _)
\* Mutant of FetchFrom: every member of a selected topic is fetched.
FetchFrom_AllMembers(arts, sel, k, log) ==
    IF k > Len(sel) THEN {[arts |-> arts, log |-> log]}
    ELSE FetchFrom_AllMembers(arts, sel, k + 1, log \o sel[k].arts)

RECURSIVE FetchFrom_FirstArticles(_, _, _, _)
\* Mutant of FetchFrom: the texts go to the first articles of the list, one
\* for each selected article.
FetchFrom_FirstArticles(arts, sel, k, log) ==
    IF k > Len(sel) THEN {[arts |-> arts, log |-> log]}
    ELSE IF arts[k].article_text # <<>>
         THEN FetchFrom_FirstArticles(arts, sel, k + 1, log)
         ELSE UNION {FetchFrom_FirstArticles([arts EXCEPT ![k].article_text = body],
                                             sel, k + 1, Append(log, sel[k].best)) :
                        body \in fetch_article_text(arts[k].link)}

RECURSIVE FetchFrom(_, _, _, _)
\* What the loop of fetch_article_texts can leave, from the k-th selected
\* article on: the list with the texts filled in, and the log of the
\* fetches made; an article that has a text already is skipped.
FetchFrom(arts, sel, k, log) ==
    IF k > Len(sel) THEN {[arts |-> arts, log |-> log]}
    ELSE LET a == sel[k].best
         IN  IF arts[a].article_text # <<>>
             THEN FetchFrom(arts, sel, k + 1, log)
             ELSE UNION {FetchFrom([arts EXCEPT ![a].article_text = body],
                                   sel, k + 1, Append(log, a)) :
                            body \in fetch_article_text(arts[a].link)}

\* Mutant of FetchSelected: a fetch that returns no text aborts the run.
FetchSelected_AbortOnFailure ==
    /\ pc = "select"
    /\ (rank_i > Window \/ Len(selected_articles) >= num_trends)
    /\ \E fetched \in FetchFrom(articles, selected_articles, 1, fetch_log) :
          /\ articles' = fetched.arts
          /\ fetch_log' = fetched.log
    /\ pc' = IF \E k \in 1..Len(selected_articles) :
                   articles'[selected_articles[k].best].article_text = <<>>
             THEN "done" ELSE "summarize"
    /\ sum_i' = 1
    /\ UNCHANGED <<GEMINI_API_KEY, topic_articles, ranked_topics, rank_i,
                   selected_articles, used_article_titles, model_i,
                   attempt, gemini_log, ai_result, trends>>
    /\ UNCHANGED scrape_vars
    /\ UNCHANGED main_vars

\* The selection loop ends (the window is exhausted, or num_trends are
\* selected and it breaks); fetch_article_texts fills article_text of the
\* selected articles in place.
FetchSelected ==
    /\ pc = "select"
    /\ (rank_i > Window \/ Len(selected_articles) >= num_trends)
    /\ \E fetched \in FetchFrom(articles, selected_articles, 1, fetch_log) :
          /\ articles' = fetched.arts
          /\ fetch_log' = fetched.log
    /\ pc' = "summarize"
    /\ sum_i' = 1
    /\ UNCHANGED <<GEMINI_API_KEY, topic_articles, ranked_topics, rank_i,
                   selected_articles, used_article_titles, model_i,
                   attempt, gemini_log, ai_result, trends>>
    /\ UNCHANGED scrape_vars
    /\ UNCHANGED main_vars

-----------------------------------------------------------------------------
(* content_gen.summarize_with_gemini, one action per model call            *)

\* Ghost records of what the function did for the current article.
CallEvent(outcome) ==
    [kind |-> "call", model |-> models_to_try[model_i], outcome |-> outcome]

SleepEvent ==
    [kind |-> "sleep", model |-> models_to_try[model_i], outcome |-> "-"]

\* text = article.get("article_text", "") or article.get("description", "")
SummarizeText(article) ==
    IF article.article_text # <<>> THEN article.article_text
    ELSE article.description

\* `return x` of summarize_with_gemini: back in analyze_trends with ai_result.
GeminiReturn(result) ==
    /\ ai_result' = result
    /\ model_i' = 0
    /\ attempt' = 0
    /\ pc' = "emit"

\* Mutant of GeminiBreak: `break` leaves both loops.
GeminiBreak_GiveUp == GeminiReturn(NoResult)

\* `break` of the attempt loop: the next model, or the final `return None`.
GeminiBreak ==
    IF model_i < Len(models_to_try)
    THEN /\ model_i' = model_i + 1
         /\ attempt' = 0
         /\ UNCHANGED <<pc, ai_result>>
    ELSE GeminiReturn(NoResult)

\* `continue`, or falling off the end of the loop body: the next attempt on
\* this model, or the next model when the attempts are used up.
GeminiContinue ==
    IF attempt + 1 < AttemptsPerModel
    THEN /\ attempt' = attempt + 1
         /\ UNCHANGED <<pc, model_i, ai_result>>
    ELSE GeminiBreak

GeminiFrame ==
    /\ UNCHANGED <<GEMINI_API_KEY, fetch_log, articles, topic_articles, ranked_topics,
                   rank_i, selected_articles, used_article_titles, sum_i, trends>>
    /\ UNCHANGED scrape_vars
    /\ UNCHANGED main_vars

\* use_ai and the entry test of summarize_with_gemini: a model is called only
\* with a key and a text of at least 50 characters.
CallsGemini(article) ==
    GEMINI_API_KEY /\ Len(SummarizeText(article)) >= SummarizeMinText

\* Start of one iteration of `for topic, topic_arts, best in
\* selected_articles` in which summarize_with_gemini reaches its model loop.
BeginSummarize ==
    /\ pc = "summarize"
    /\ sum_i <= Len(selected_articles)
    /\ CallsGemini(articles[selected_articles[sum_i].best])
    /\ gemini_log' = <<>>
    /\ ai_result' = NoResult
    /\ pc' = "gemini"
    /\ model_i' = 1
    /\ attempt' = 0
    /\ GeminiFrame

\* The reply parses and has headline, insight and takeaways: return result.
GeminiSuccess ==
    /\ pc = "gemini"
    /\ gemini_log' = Append(gemini_log, CallEvent("ok"))
    /\ \E result \in AIResults : GeminiReturn(result)
    /\ GeminiFrame

\* The reply parses but lacks a field: nothing is raised, the loop goes on.
GeminiMissingFields ==
    /\ pc = "gemini"
    /\ gemini_log' = Append(gemini_log, CallEvent("no_fields"))
    /\ GeminiContinue
    /\ GeminiFrame

\* Mutant of GeminiParseError: a parse error is retried like a missing field.
GeminiParseError_Retry ==
    /\ pc = "gemini"
    /\ gemini_log' = Append(gemini_log, CallEvent("bad_json"))
    /\ GeminiContinue
    /\ GeminiFrame

\* json.JSONDecodeError: break.
GeminiParseError ==
    /\ pc = "gemini"
    /\ gemini_log' = Append(gemini_log, CallEvent("bad_json"))
    /\ GeminiBreak
    /\ GeminiFrame

\* Mutant of GeminiNotFound: a 404 is handled like a rate limit.
GeminiNotFound_Retry ==
    /\ pc = "gemini"
    /\ IF attempt = 0
       THEN /\ gemini_log' = gemini_log \o <<CallEvent("404"), SleepEvent>>
            /\ GeminiContinue
       ELSE /\ gemini_log' = Append(gemini_log, CallEvent("404"))
            /\ GeminiBreak
    /\ GeminiFrame

\* An exception whose text holds "404": break.
GeminiNotFound ==
    /\ pc = "gemini"
    /\ gemini_log' = Append(gemini_log, CallEvent("404"))
    /\ GeminiBreak
    /\ GeminiFrame

\* Mutant of GeminiRateLimit: the wait is not limited to attempt 0.
GeminiRateLimit_AlwaysWait ==
    /\ pc = "gemini"
    /\ gemini_log' = gemini_log \o <<CallEvent("429"), SleepEvent>>
    /\ GeminiContinue
    /\ GeminiFrame

\* An exception whose text holds "429" or "quota": on attempt 0 sleep and
\* continue, otherwise break.
GeminiRateLimit ==
    /\ pc = "gemini"
    /\ IF attempt = 0
       THEN /\ gemini_log' = gemini_log \o <<CallEvent("429"), SleepEvent>>
            /\ GeminiContinue
       ELSE /\ gemini_log' = Append(gemini_log, CallEvent("429"))
            /\ GeminiBreak
    /\ GeminiFrame

\* Mutant of GeminiOtherError: the error moves on to the next model.
GeminiOtherError_NextModel ==
    /\ pc = "gemini"
    /\ gemini_log' = Append(gemini_log, CallEvent("error"))
    /\ GeminiBreak
    /\ GeminiFrame

\* Any other exception: return None.
GeminiOtherError ==
    /\ pc = "gemini"
    /\ gemini_log' = Append(gemini_log, CallEvent("error"))
    /\ GeminiReturn(NoResult)
    /\ GeminiFrame

-----------------------------------------------------------------------------
(* config.TOPIC_ICONS and content_gen.get_icon_for_topic                   *)

\* An emoji is the sequence of its code points, each named "U+hex".
\* The entries of TOPIC_ICONS other than "default", in dict order.
TOPIC_ICONS == <<
       <<<<"a","i">>, <<"U+1F916">>>>,
       <<<<"m","a","c","h","i","n","e"," ","l","e","a","r","n","i","n","g">>, <<"U+1F9E0">>>>,
       <<<<"d","e","e","p"," ","l","e","a","r","n","i","n","g">>, <<"U+1F9E0">>>>,
       <<<<"l","l","m">>, <<"U+1F4AC">>>>,
       <<<<"c","h","a","t","b","o","t">>, <<"U+1F4AC">>>>,
       <<<<"r","o","b","o","t","i","c","s">>, <<"U+1F9BE">>>>,
       <<<<"a","u","t","o","n","o","m","o","u","s">>, <<"U+1F697">>>>,
       <<<<"d","a","t","a">>, <<"U+1F4CA">>>>,
       <<<<"c","l","o","u","d">>, <<"U+2601","U+FE0F">>>>,
       <<<<"d","e","v","o","p","s">>, <<"U+2699","U+FE0F">>>>,
       <<<<"k","u","b","e","r","n","e","t","e","s">>, <<"U+1F433">>>>,
       <<<<"d","o","c","k","e","r">>, <<"U+1F433">>>>,
       <<<<"s","e","c","u","r","i","t","y">>, <<"U+1F512">>>>,
       <<<<"p","r","i","v","a","c","y">>, <<"U+1F6E1","U+FE0F">>>>,
       <<<<"s","t","a","r","t","u","p">>, <<"U+1F680">>>>,
       <<<<"f","u","n","d","i","n","g">>, <<"U+1F4B0">>>>,
       <<<<"r","e","s","e","a","r","c","h">>, <<"U+1F52C">>>>,
       <<<<"c","h","i","p">>, <<"U+1F532">>>>,
       <<<<"g","p","u">>, <<"U+1F532">>>>,
       <<<<"e","n","e","r","g","y">>, <<"U+26A1">>>>
    >>

\* TOPIC_ICONS["default"]
DefaultIcon == <<"U+1F4E1">>

\* The topic labels a trend can carry: the topics of TOPIC_MAP, the entry
\* categories of the sample articles, and the backfill's "Tech News".
Labels == {"AI & LLMs",
           "Generative AI",
           "AI Hardware",
           "AI Safety & Ethics",
           "Autonomous & Robotics",
           "AI Agents",
           "AI Startups & Funding",
           "AI & Defense",
           "Cloud & Containers",
           "DevOps & CI/CD",
           "Infrastructure as Code",
           "Security & Compliance",
           "Observability & Monitoring",
           "Data Centers & Energy",
           "AI in Search",
           "Big Tech & AI",
           "AI Research",
           "Tech News",
           "Gadgets",
           "Reviews"}

\* The characters of a label.
LabelText ==
    [label \in Labels |->
       CASE label = "AI & LLMs" -> <<"A","I"," ","&"," ","L","L","M","s">>
         [] label = "Generative AI" -> <<"G","e","n","e","r","a","t","i","v","e"," ","A","I">>
         [] label = "AI Hardware" -> <<"A","I"," ","H","a","r","d","w","a","r","e">>
         [] label = "AI Safety & Ethics" -> <<"A","I"," ","S","a","f","e","t","y"," ","&"," ","E","t","h","i","c","s">>
         [] label = "Autonomous & Robotics" -> <<"A","u","t","o","n","o","m","o","u","s"," ","&"," ","R","o","b","o","t","i","c","s">>
         [] label = "AI Agents" -> <<"A","I"," ","A","g","e","n","t","s">>
         [] label = "AI Startups & Funding" -> <<"A","I"," ","S","t","a","r","t","u","p","s"," ","&"," ","F","u","n","d","i","n","g">>
         [] label = "AI & Defense" -> <<"A","I"," ","&"," ","D","e","f","e","n","s","e">>
         [] label = "Cloud & Containers" -> <<"C","l","o","u","d"," ","&"," ","C","o","n","t","a","i","n","e","r","s">>
         [] label = "DevOps & CI/CD" -> <<"D","e","v","O","p","s"," ","&"," ","C","I","/","C","D">>
         [] label = "Infrastructure as Code" -> <<"I","n","f","r","a","s","t","r","u","c","t","u","r","e"," ","a","s"," ","C","o","d","e">>
         [] label = "Security & Compliance" -> <<"S","e","c","u","r","i","t","y"," ","&"," ","C","o","m","p","l","i","a","n","c","e">>
         [] label = "Observability & Monitoring" -> <<"O","b","s","e","r","v","a","b","i","l","i","t","y"," ","&"," ","M","o","n","i","t","o","r","i","n","g">>
         [] label = "Data Centers & Energy" -> <<"D","a","t","a"," ","C","e","n","t","e","r","s"," ","&"," ","E","n","e","r","g","y">>
         [] label = "AI in Search" -> <<"A","I"," ","i","n"," ","S","e","a","r","c","h">>
         [] label = "Big Tech & AI" -> <<"B","i","g"," ","T","e","c","h"," ","&"," ","A","I">>
         [] label = "AI Research" -> <<"A","I"," ","R","e","s","e","a","r","c","h">>
         [] label = "Tech News" -> <<"T","e","c","h"," ","N","e","w","s">>
         [] label = "Gadgets" -> <<"G","a","d","g","e","t","s">>
         [] label = "Reviews" -> <<"R","e","v","i","e","w","s">>
    ]

RECURSIVE IconFrom(_, _)
\* The icon of the first key, from entry i on, that topic_lower contains.
IconFrom(topic_lower, i) ==
    IF i > Len(TOPIC_ICONS) THEN DefaultIcon
    ELSE IF Contains(topic_lower, TOPIC_ICONS[i][1]) THEN TOPIC_ICONS[i][2]
    ELSE IconFrom(topic_lower, i + 1)

get_icon_for_topic(topic) == IconFrom(Lower(topic), 1)

\* get_icon_for_topic of every label, computed once.
LabelIcon == [label \in Labels |-> get_icon_for_topic(LabelText[label])]


-----------------------------------------------------------------------------
(* content_gen.analyze_trends: building the trends                         *)

\* Mutant of TopicTrend: the trend lists the whole input, not topic_arts.
TopicTrend_AllArticles(arts, sel, result) ==
    LET best == arts[sel.best]
    IN  [topic |-> sel.topic,
         count |-> Len(sel.arts),
         articles |-> [k \in 1..Len(arts) |-> k],
         headline |-> IF result # NoResult THEN result.headline ELSE best.title,
         insight |-> IF result # NoResult THEN result.insight
                     ELSE truncate_at_sentence(best.description,
                                               InsightMaxLen, TruncateMinLen),
         source |-> best.source,
         all_sources |-> {arts[sel.arts[k]].source : k \in 1..Len(sel.arts)},
         takeaways |-> IF result # NoResult THEN Take(result.takeaways, MaxTakeaways)
                       ELSE _extract_takeaways_from_text(best.article_text,
                                                         best.description),
         ai_generated |-> result # NoResult,
         icon |-> LabelIcon[sel.topic],
         rep |-> sel.best]

\* The trend of a selected topic, from the AI result or from the fallback.
\* rep is a ghost field: the position of the representative article.
TopicTrend(arts, sel, result) ==
    LET best == arts[sel.best]
    IN  [topic |-> sel.topic,
         count |-> Len(sel.arts),
         articles |-> sel.arts,
         headline |-> IF result # NoResult THEN result.headline ELSE best.title,
         insight |-> IF result # NoResult THEN result.insight
                     ELSE truncate_at_sentence(best.description,
                                               InsightMaxLen, TruncateMinLen),
         source |-> best.source,
         all_sources |-> {arts[sel.arts[k]].source : k \in 1..Len(sel.arts)},
         takeaways |-> IF result # NoResult THEN Take(result.takeaways, MaxTakeaways)
                       ELSE _extract_takeaways_from_text(best.article_text,
                                                         best.description),
         ai_generated |-> result # NoResult,
         icon |-> LabelIcon[sel.topic],
         rep |-> sel.best]

\* Mutant of BackfillTrend: the label is "Tech News" whatever the categories.
BackfillTrend_AlwaysTechNews(arts, a) ==
    [topic |-> "Tech News",
     count |-> 1,
     articles |-> <<a>>,
     headline |-> arts[a].title,
     insight |-> truncate_at_sentence(arts[a].description,
                                      InsightMaxLen, TruncateMinLen),
     source |-> arts[a].source,
     all_sources |-> {arts[a].source},
     takeaways |-> <<>>,
     icon |-> <<"U+1F4E1">>,
     ai_generated |-> FALSE,
     rep |-> a]

\* The single-article trend the backfill builds for article a.
BackfillTrend(arts, a) ==
    [topic |-> IF arts[a].entry_categories # <<>>
               THEN arts[a].entry_categories[1] ELSE "Tech News",
     count |-> 1,
     articles |-> <<a>>,
     headline |-> arts[a].title,
     insight |-> truncate_at_sentence(arts[a].description,
                                      InsightMaxLen, TruncateMinLen),
     source |-> arts[a].source,
     all_sources |-> {arts[a].source},
     takeaways |-> <<>>,
     icon |-> <<"U+1F4E1">>,
     ai_generated |-> FALSE,
     rep |-> a]

\* A whole iteration in which no model is called: there is no key, or
\* summarize_with_gemini returns None for a text shorter than 50 characters;
\* the trend is built from the fallback content.
SummarizeLocal ==
    /\ pc = "summarize"
    /\ sum_i <= Len(selected_articles)
    /\ ~CallsGemini(articles[selected_articles[sum_i].best])
    /\ gemini_log' = <<>>
    /\ ai_result' = NoResult
    /\ trends' = Append(trends,
                        TopicTrend(articles, selected_articles[sum_i], NoResult))
    /\ sum_i' = sum_i + 1
    /\ UNCHANGED <<GEMINI_API_KEY, fetch_log, articles, pc, topic_articles, ranked_topics,
                   rank_i, selected_articles, used_article_titles, model_i, attempt>>
    /\ UNCHANGED scrape_vars
    /\ UNCHANGED main_vars

\* Rest of an iteration that called summarize_with_gemini:
\* trends.append({...}).
EmitTrend ==
    /\ pc = "emit"
    /\ trends' = Append(trends,
                        TopicTrend(articles, selected_articles[sum_i], ai_result))
    /\ sum_i' = sum_i + 1
    /\ pc' = "summarize"
    /\ UNCHANGED <<GEMINI_API_KEY, fetch_log, articles, topic_articles, ranked_topics,
                   rank_i, selected_articles, used_article_titles, model_i, attempt, gemini_log, ai_result>>
    /\ UNCHANGED scrape_vars
    /\ UNCHANGED main_vars

RECURSIVE BackfillFrom_NoStop(_, _, _, _)
\* Mutant of BackfillFrom: the loop does not stop at num_trends.
BackfillFrom_NoStop(arts, a, tr, used) ==
    IF a > Len(arts) THEN <<tr, used>>
    ELSE IF arts[a].title \notin used
         THEN BackfillFrom_NoStop(arts, a + 1,
                                  Append(tr, BackfillTrend(arts, a)),
                                  used \cup {arts[a].title})
         ELSE BackfillFrom_NoStop(arts, a + 1, tr, used)

RECURSIVE BackfillFrom_Backwards(_, _, _, _)
\* Mutant of BackfillFrom: the input list is walked from its end.
BackfillFrom_Backwards(arts, a, tr, used) ==
    IF a > Len(arts) \/ Len(tr) >= num_trends THEN <<tr, used>>
    ELSE LET p == Len(arts) + 1 - a
         IN  IF arts[p].title \notin used
             THEN BackfillFrom_Backwards(arts, a + 1,
                                         Append(tr, BackfillTrend(arts, p)),
                                         used \cup {arts[p].title})
             ELSE BackfillFrom_Backwards(arts, a + 1, tr, used)

RECURSIVE BackfillFrom_AnyTitle(_, _, _, _)
\* Mutant of BackfillFrom: an article is taken whether or not its title was
\* used.
BackfillFrom_AnyTitle(arts, a, tr, used) ==
    IF a > Len(arts) \/ Len(tr) >= num_trends THEN <<tr, used>>
    ELSE BackfillFrom_AnyTitle(arts, a + 1, Append(tr, BackfillTrend(arts, a)),
                               used \cup {arts[a].title})

RECURSIVE BackfillFrom(_, _, _, _)
\* The backfill loop from article a on: <<trends, used_article_titles>>.
BackfillFrom(arts, a, tr, used) ==
    IF a > Len(arts) \/ Len(tr) >= num_trends THEN <<tr, used>>
    ELSE IF arts[a].title \notin used
         THEN BackfillFrom(arts, a + 1, Append(tr, BackfillTrend(arts, a)),
                           used \cup {arts[a].title})
         ELSE BackfillFrom(arts, a + 1, tr, used)

\* The loop over selected_articles is over.  `if len(trends) < num_trends`
\* the backfill loop runs over the input list; then `return trends`.
\* No article is being summarized any more: the ghost log is emptied.
Backfill ==
    /\ pc = "summarize"
    /\ sum_i > Len(selected_articles)
    /\ LET filled == IF Len(trends) < num_trends
                     THEN BackfillFrom(articles, 1, trends, used_article_titles)
                     ELSE <<trends, used_article_titles>>
       IN  /\ trends' = filled[1]
           /\ used_article_titles' = filled[2]
    /\ pc' = "done"
    /\ gemini_log' = <<>>
    /\ ai_result' = NoResult
    /\ UNCHANGED <<GEMINI_API_KEY, fetch_log, articles, topic_articles, ranked_topics,
                   rank_i, selected_articles, sum_i, model_i,
                   attempt>>
    /\ UNCHANGED scrape_vars
    /\ UNCHANGED main_vars

-----------------------------------------------------------------------------
(* The specification of analyze_trends                                     *)

ScrapeIdle ==
    /\ all_articles = <<>>
    /\ unique_articles = <<>>
    /\ scrape_pc = "off"

\* Lists in which no article of the pool occurs twice, of every length.
DistinctLists == UNION {Orderings(S) : S \in SUBSET ArticlePool}

\* analyze_trends is entered with an article list; GEMINI_API_KEY is set or
\* not.  Without a key: every list of up to MaxArticles articles, and every
\* list of distinct articles.  With a key: every list of up to
\* MaxKeyedArticles articles.
Init ==
    /\ ScrapeIdle
    /\ MainIdle
    /\ \/ /\ GEMINI_API_KEY = FALSE
          /\ articles \in SeqsUpTo(ArticlePool, MaxArticles) \cup DistinctLists
       \/ /\ GEMINI_API_KEY = TRUE
          /\ articles \in SeqsUpTo(ArticlePool, MaxKeyedArticles)
    /\ pc = "start"
    /\ topic_articles = <<>>
    /\ ranked_topics = <<>>
    /\ rank_i = 0
    /\ selected_articles = <<>>
    /\ used_article_titles = {}
    /\ sum_i = 0
    /\ model_i = 0
    /\ attempt = 0
    /\ gemini_log = <<>>
    /\ ai_result = NoResult
    /\ trends = <<>>
    /\ fetch_log = <<>>

Next ==
    \/ GroupAndRank
    \/ SelectForTopic
    \/ FetchSelected
    \/ BeginSummarize
    \/ GeminiSuccess
    \/ GeminiMissingFields
    \/ GeminiParseError
    \/ GeminiNotFound
    \/ GeminiRateLimit
    \/ GeminiOtherError
    \/ SummarizeLocal
    \/ EmitTrend
    \/ Backfill

Spec == Init /\ [][Next]_vars

-----------------------------------------------------------------------------
(* Claims about the trends analyze_trends returns (checked under Spec)     *)

\* The title of the representative article of a trend.
RepTitle(t) == articles[t.rep].title

\* The titles of the representatives chosen by the first pass.
SelectedTitles ==
    {articles[selected_articles[k].best].title : k \in 1..Len(selected_articles)}

\* Positions whose title no representative has and no earlier article has:
\* the articles a walk of the input list in order can still use.
FreshPositions ==
    {a \in 1..Len(articles) :
        /\ articles[a].title \notin SelectedTitles
        /\ \A b \in 1..(a - 1) : articles[b].title # articles[a].title}

\* The j-th smallest element of a set of positions.
NthOf(S, j) == CHOOSE a \in S : Cardinality({b \in S : b <= a}) = j

\* C1: at every moment, and so on return, analyze_trends holds at most
\* num_trends = NUM_CAROUSEL_SLIDES - 1 trends, topic trends and backfill
\* trends counted together.
C1_AtMostNTrends == Len(trends) <= num_trends

\* C1 witness: the call has returned num_trends trends, the last of them a
\* backfill trend, although an article with an unused title was left over.
C1_Witness ==
    /\ pc = "done"
    /\ Len(trends) = num_trends
    /\ Len(selected_articles) < num_trends
    /\ \E a \in 1..Len(articles) : articles[a].title \notin used_article_titles

\* C2: no two trends of the list have representatives with the same title.
C2_DistinctRepresentatives ==
    \A i, j \in 1..Len(trends) : i # j => RepTitle(trends[i]) # RepTitle(trends[j])

\* C2 witness: the input holds the same two-topic article twice and another
\* title twice; one topic trend and one backfill trend have been returned.
C2_Witness ==
    /\ pc = "done"
    /\ articles = <<A_GptChip, A_GptChip, A_News, A_News>>
    /\ Len(ranked_topics) = 2
    /\ Len(selected_articles) = 1
    /\ Len(trends) = 2

\* C3: on return, the trends after the topic trends are single-article
\* trends of the first fresh positions of the input, in input order, as many
\* as fit: the list has num_trends trends if there are enough fresh
\* positions and all of them otherwise.
C3_BackfillInInputOrder ==
    pc = "done" =>
        LET k == Len(selected_articles)
            want == Min(num_trends - k, Cardinality(FreshPositions))
        IN  /\ Len(trends) = k + want
            /\ \A j \in 1..want :
                  /\ trends[k + j].rep = NthOf(FreshPositions, j)
                  /\ trends[k + j].articles = <<trends[k + j].rep>>
                  /\ trends[k + j].count = 1

\* C3 witness: the first pass selected fewer than num_trends articles and
\* the backfill added at least two trends, reaching num_trends.
C3_Witness ==
    /\ pc = "done"
    /\ Len(selected_articles) < num_trends
    /\ Len(trends) >= Len(selected_articles) + 2
    /\ Len(trends) = num_trends

-----------------------------------------------------------------------------
(* Claims about summarize_with_gemini (checked under Spec)                 *)
(* gemini_log holds what the function did for the article it was last      *)
(* called with; while pc = "gemini" the function is still running.         *)

PrimaryModel == models_to_try[1]
SecondaryModel == models_to_try[Len(models_to_try)]

\* Positions of the model calls in the log, and of the calls of one model.
CallsIn(log) == {i \in 1..Len(log) : log[i].kind = "call"}
CallsOf(log, m) == {i \in CallsIn(log) : log[i].model = m}
SleepsIn(log) == {i \in 1..Len(log) : log[i].kind = "sleep"}

\* Positions of the calls that ended with the given outcome.
Outcomes(log, outcome) == {i \in CallsIn(log) : log[i].outcome = outcome}

\* i and j are two calls in a row.
InARow(log, i, j) ==
    /\ i \in CallsIn(log) /\ j \in CallsIn(log) /\ i < j
    /\ \A k \in CallsIn(log) : ~(i < k /\ k < j)

\* The function has returned for the article of the log.
Returned == pc # "gemini"

\* The trend of the article of the log, once it is appended.
LoggedTrendEmitted == pc = "summarize" /\ gemini_log # <<>>
LoggedSelection == selected_articles[sum_i - 1]
LoggedTrend == trends[sum_i - 1]

\* The trend holds the local fallback content of its representative.
UsesFallback(t, best) ==
    /\ t.ai_generated = FALSE
    /\ t.headline = best.title
    /\ t.insight = truncate_at_sentence(best.description,
                                        InsightMaxLen, TruncateMinLen)
    /\ t.takeaways = _extract_takeaways_from_text(best.article_text,
                                                  best.description)

\* C6: when the primary model signals a rate limit on two calls in a row,
\* exactly one wait lies between the two calls, none follows the second, the
\* function goes on with the secondary model, and it does not return before
\* the secondary model has been called.
C6_SecondaryTriedAfterTwoRateLimits ==
    \A i, j \in Outcomes(gemini_log, "429") :
        ( /\ gemini_log[i].model = PrimaryModel
          /\ gemini_log[j].model = PrimaryModel
          /\ InARow(gemini_log, i, j) )
        => /\ {k \in SleepsIn(gemini_log) : i < k /\ k < j} = {i + 1}
           /\ j + 1 \notin SleepsIn(gemini_log)
           /\ ~Returned /\ j = Len(gemini_log) => models_to_try[model_i] = SecondaryModel
           /\ Returned => \E k \in CallsOf(gemini_log, SecondaryModel) : k > j

\* C6 witness: two rate limits of the primary model, then calls of the
\* secondary model, and the function has given up.
C6_Witness ==
    /\ pc = "emit"
    /\ ai_result = NoResult
    /\ Len(gemini_log) >= 4
    /\ gemini_log[1] = [kind |-> "call", model |-> PrimaryModel, outcome |-> "429"]
    /\ gemini_log[2].kind = "sleep"
    /\ gemini_log[3] = [kind |-> "call", model |-> PrimaryModel, outcome |-> "429"]
    /\ gemini_log[4].kind = "call"
    /\ gemini_log[4].model = SecondaryModel

\* C7: for one article there are at most 2 calls per model, at most 4 calls
\* and at most 2 waits; while the function is running the ceiling is not
\* reached yet, and each model has at most one wait.
C7_AttemptCeiling ==
    /\ \A m \in Range(models_to_try) :
          /\ Cardinality(CallsOf(gemini_log, m)) <= AttemptsPerModel
          /\ Cardinality({k \in SleepsIn(gemini_log) : gemini_log[k].model = m}) <= 1
    /\ Cardinality(CallsIn(gemini_log)) <= 4
    /\ Cardinality(SleepsIn(gemini_log)) <= 2
    /\ ~Returned => Cardinality(CallsIn(gemini_log)) < 4

\* C7 witness: the function has returned after 4 calls and 2 waits.
C7_Witness ==
    /\ Returned
    /\ Cardinality(CallsIn(gemini_log)) = 4
    /\ Cardinality(SleepsIn(gemini_log)) = 2

\* C8: after a call that failed with 404 no call of the same model and no
\* wait follows; what follows is a call of the other model; a 404 of the
\* last model is the end, with None.
C8_NotFoundSkipsModel ==
    \A i \in Outcomes(gemini_log, "404") :
        /\ \A k \in CallsOf(gemini_log, gemini_log[i].model) : k <= i
        /\ i < Len(gemini_log) =>
              /\ gemini_log[i + 1].kind = "call"
              /\ gemini_log[i + 1].model # gemini_log[i].model
        /\ gemini_log[i].model = SecondaryModel =>
              /\ i = Len(gemini_log)
              /\ Returned
              /\ ai_result = NoResult
        /\ (gemini_log[i].model = PrimaryModel /\ i = Len(gemini_log)) =>
              /\ ~Returned
              /\ models_to_try[model_i] = SecondaryModel
              /\ attempt = 0

\* C8 witness: a 404 of the primary model after a first attempt on it, then
\* a 404 of the secondary model, and the function has returned None.
C8_Witness ==
    /\ pc = "emit"
    /\ ai_result = NoResult
    /\ Len(gemini_log) = 3
    /\ gemini_log[1] = [kind |-> "call", model |-> PrimaryModel, outcome |-> "no_fields"]
    /\ gemini_log[2] = [kind |-> "call", model |-> PrimaryModel, outcome |-> "404"]
    /\ gemini_log[3] = [kind |-> "call", model |-> SecondaryModel, outcome |-> "404"]

\* C9: a call that failed with another error is the last event for the
\* article: the function has returned None, and the trend of the article,
\* once appended, holds the fallback content.
C9_OtherErrorReturnsNone ==
    \A i \in Outcomes(gemini_log, "error") :
        /\ i = Len(gemini_log)
        /\ Returned
        /\ pc = "emit" => ai_result = NoResult
        /\ LoggedTrendEmitted =>
              /\ LoggedTrend.rep = LoggedSelection.best
              /\ UsesFallback(LoggedTrend, articles[LoggedSelection.best])

\* C9 witness: the first call of the primary model failed with another
\* error and the fallback trend of the article is in the list.
C9_Witness ==
    /\ LoggedTrendEmitted
    /\ gemini_log = <<[kind |-> "call", model |-> PrimaryModel, outcome |-> "error"]>>
    /\ LoggedTrend.ai_generated = FALSE

\* C10 (as claimed): after a malformed payload no further model call is made
\* for the article.
C10_ParseErrorEndsSummarization ==
    \A i \in Outcomes(gemini_log, "bad_json") :
        \A k \in CallsIn(gemini_log) : k <= i

\* C10 (amended): a malformed payload ends the attempts on that model only,
\* without a wait: what follows, if anything, is a call of the other model,
\* and a malformed payload of the last model ends summarization with None.
\* The trend of the article holds the fallback content unless the last call
\* succeeded, and the loop goes on with the next selected article.
C10_ParseErrorSkipsModel ==
    \A i \in Outcomes(gemini_log, "bad_json") :
        /\ \A k \in CallsOf(gemini_log, gemini_log[i].model) : k <= i
        /\ i < Len(gemini_log) =>
              /\ gemini_log[i + 1].kind = "call"
              /\ gemini_log[i + 1].model # gemini_log[i].model
        /\ gemini_log[i].model = SecondaryModel =>
              /\ i = Len(gemini_log)
              /\ Returned
              /\ ai_result = NoResult
        /\ (gemini_log[i].model = PrimaryModel /\ i = Len(gemini_log)) =>
              /\ ~Returned
              /\ models_to_try[model_i] = SecondaryModel
        /\ LoggedTrendEmitted =>
              /\ Len(trends) = sum_i - 1
              /\ LoggedTrend.rep = LoggedSelection.best
              /\ gemini_log[Len(gemini_log)].outcome # "ok" =>
                    UsesFallback(LoggedTrend, articles[LoggedSelection.best])
              /\ sum_i <= Len(selected_articles) =>
                    ENABLED (BeginSummarize \/ SummarizeLocal)

\* C10 witness: the primary model returned a malformed payload for the first
\* selected article, its fallback trend is in the list, and the second
\* selected article is about to be summarized.
C10_Witness ==
    /\ LoggedTrendEmitted
    /\ sum_i = 2
    /\ Len(selected_articles) = 2
    /\ CallsGemini(articles[selected_articles[2].best])
    /\ Outcomes(gemini_log, "bad_json") # {}
    /\ gemini_log[1].outcome = "bad_json"
    /\ LoggedTrend.ai_generated = FALSE

-----------------------------------------------------------------------------
(* The classification of articles into topics (checked under SpecClassify) *)

\* Longest article list explored for the classification.
MaxClassified == 2

\* analyze_trends is entered, without a key, with a list of sample articles.
InitClassify ==
    /\ ScrapeIdle
    /\ MainIdle
    /\ GEMINI_API_KEY = FALSE
    /\ articles \in SeqsUpTo(ClassifySamples, MaxClassified)
    /\ pc = "start"
    /\ topic_articles = <<>>
    /\ ranked_topics = <<>>
    /\ rank_i = 0
    /\ selected_articles = <<>>
    /\ used_article_titles = {}
    /\ sum_i = 0
    /\ model_i = 0
    /\ attempt = 0
    /\ gemini_log = <<>>
    /\ ai_result = NoResult
    /\ trends = <<>>
    /\ fetch_log = <<>>

NextClassify == GroupAndRank

SpecClassify == InitClassify /\ [][NextClassify]_vars

\* The topics that have a table keyword which is an entry of the article's
\* keyword list or a substring of the lowercased title.
HitTopics(article) ==
    LET title_lower == Lower(article.title)
        hits == {e \in 1..Len(TOPIC_MAP) :
                    \/ TOPIC_MAP[e][1] \in Range(article.keywords)
                    \/ Contains(title_lower, TOPIC_MAP[e][1])}
    IN  {TOPIC_MAP[e][2] : e \in hits}

\* The topics under which position a is grouped, and how often.
GroupsOf(a) ==
    {topic_articles[e].topic :
        e \in {e \in 1..Len(topic_articles) : a \in Range(topic_articles[e].arts)}}
Occurrences(a, e) ==
    Cardinality({k \in 1..Len(topic_articles[e].arts) : topic_articles[e].arts[k] = a})

\* C11: once the articles are grouped, every article is a member, once, of
\* the groups of exactly the topics it hits; no topic has two groups and no
\* group is empty.
C11_GroupedUnderHitTopics ==
    pc # "start" =>
        /\ \A a \in 1..Len(articles) : GroupsOf(a) = HitTopics(articles[a])
        /\ \A e \in 1..Len(topic_articles) :
              /\ topic_articles[e].arts # <<>>
              /\ \A a \in 1..Len(articles) : Occurrences(a, e) <= 1
              /\ \A e2 \in 1..Len(topic_articles) :
                    topic_articles[e2].topic = topic_articles[e].topic => e2 = e

\* C11 witness: the scenario's article is grouped under "AI & LLMs" only,
\* not under "Cloud & Containers", and the second article is in no group.
C11_Witness ==
    /\ pc = "select"
    /\ articles = <<S_OpenAIModel, S_Paint>>
    /\ Len(topic_articles) = 1
    /\ topic_articles[1] = [topic |-> "AI & LLMs", arts |-> <<1>>]

-----------------------------------------------------------------------------
(* The extractive fallback (checked under SpecTakeaways)                   *)

\* Longest article list explored for the extractive fallback.
MaxPageArticles == 1

\* analyze_trends is entered, without a key, with articles that link to the
\* sample pages.
InitTakeaways ==
    /\ ScrapeIdle
    /\ MainIdle
    /\ GEMINI_API_KEY = FALSE
    /\ articles \in SeqsUpTo(PageArticles, MaxPageArticles)
    /\ pc = "start"
    /\ topic_articles = <<>>
    /\ ranked_topics = <<>>
    /\ rank_i = 0
    /\ selected_articles = <<>>
    /\ used_article_titles = {}
    /\ sum_i = 0
    /\ model_i = 0
    /\ attempt = 0
    /\ gemini_log = <<>>
    /\ ai_result = NoResult
    /\ trends = <<>>
    /\ fetch_log = <<>>

NextTakeaways ==
    \/ GroupAndRank
    \/ SelectForTopic
    \/ FetchSelected
    \/ SummarizeLocal
    \/ Backfill

SpecTakeaways == InitTakeaways /\ [][NextTakeaways]_vars

\* C12: a trend holds at most 3 takeaways, and every takeaway of the
\* extractive fallback has at least TakeawayMinLen = 30 characters.
C12_TakeawaysFewAndNotShort ==
    \A i \in 1..Len(trends) :
        /\ Len(trends[i].takeaways) <= MaxTakeaways
        /\ \A k \in 1..Len(trends[i].takeaways) :
              Len(trends[i].takeaways[k]) >= TakeawayMinLen

\* C12 witness: the fallback returned 3 takeaways out of 4 usable sentences,
\* one of them cut.
C12_Witness ==
    /\ Len(trends) = 1
    /\ trends[1].ai_generated = FALSE
    /\ articles[trends[1].rep].article_text = PageMany
    /\ Len(trends[1].takeaways) = 3
    /\ \E k \in 1..3 :
          SubSeq(trends[1].takeaways[k],
                 Len(trends[1].takeaways[k]) - 2,
                 Len(trends[1].takeaways[k])) = Ellipsis

\* C13: every takeaway of the extractive fallback has at most
\* TakeawayMaxLen = 85 characters, an ellipsis included.
C13_TakeawayWithinMaxLen ==
    \A i \in 1..Len(trends) :
        \A k \in 1..Len(trends[i].takeaways) :
            Len(trends[i].takeaways[k]) <= TakeawayMaxLen

-----------------------------------------------------------------------------
(* Claims about the content and order of the trends (checked under Spec)   *)

\* C14: every trend in the list has a non-empty headline and a non-empty
\* insight.
C14_HeadlineAndInsightNonEmpty ==
    \A i \in 1..Len(trends) :
        trends[i].headline # <<>> /\ trends[i].insight # <<>>

\* The trend at position i comes from the first pass (a topic trend); the
\* trends behind them come from the backfill.
IsTopicTrend(i) == i <= Len(selected_articles)

\* Every member of trend t matched the label of t, and the representative
\* of t is a member.
MembersMatchLabel(t) ==
    /\ \A k \in 1..Len(t.articles) :
          t.topic \in MatchedTopicsOf(articles[t.articles[k]])
    /\ t.rep \in Range(t.articles)

\* C15 (as claimed): in every trend, backfill trends included, all members
\* matched the trend's label and the representative is a member.
C15_AllMembersMatchLabel ==
    \A i \in 1..Len(trends) : MembersMatchLabel(trends[i])

\* C15 (amended): in every topic trend all members matched the trend's
\* label and the representative is a member; a backfill trend has its
\* representative as only member and is labelled with the article's first
\* entry category, or "Tech News", whatever the article matched.
C15_TopicTrendMembersMatchLabel ==
    \A i \in 1..Len(trends) :
        IF IsTopicTrend(i)
        THEN /\ MembersMatchLabel(trends[i])
             /\ trends[i].count = Len(trends[i].articles)
        ELSE /\ trends[i].articles = <<trends[i].rep>>
             /\ trends[i].topic =
                   IF articles[trends[i].rep].entry_categories # <<>>
                   THEN articles[trends[i].rep].entry_categories[1]
                   ELSE "Tech News"

\* C15 witness: a topic trend with two members, one of them the
\* representative, is followed by a backfill trend whose label its article
\* did not match.
C15_Witness ==
    /\ pc = "done"
    /\ Len(trends) >= 2
    /\ IsTopicTrend(1)
    /\ Len(trends[1].articles) = 2
    /\ \E i \in 2..Len(trends) :
          /\ ~IsTopicTrend(i)
          /\ trends[i].topic \notin MatchedTopicsOf(articles[trends[i].rep])

\* The position of a topic in ranked_topics.
RankOf(topic) ==
    CHOOSE r \in 1..Len(ranked_topics) : ranked_topics[r].topic = topic

\* C16: the topic trends are the selected topics in selection order, which
\* is rank order with non-increasing member count; whatever follows them is
\* a single-article backfill trend; and the list only grows at its end.
C16_SelectionOrder ==
    /\ [](/\ Len(trends) <= Len(selected_articles) \/ pc = "done"
          /\ \A i \in 1..Len(trends) :
                IF IsTopicTrend(i)
                THEN /\ trends[i].topic = selected_articles[i].topic
                     /\ trends[i].rep = selected_articles[i].best
                     /\ trends[i].count = Len(selected_articles[i].arts)
                ELSE /\ trends[i].count = 1
                     /\ trends[i].articles = <<trends[i].rep>>
          /\ \A i, j \in 1..Len(selected_articles) :
                i < j =>
                  /\ RankOf(selected_articles[i].topic) < RankOf(selected_articles[j].topic)
                  /\ Len(selected_articles[i].arts) >= Len(selected_articles[j].arts))
    /\ [][/\ Len(trends') >= Len(trends)
          /\ SubSeq(trends', 1, Len(trends)) = trends]_vars

\* C16 witness: two topic trends of different member count, the larger
\* first, followed by a backfill trend.
C16_Witness ==
    /\ pc = "done"
    /\ Len(selected_articles) = 2
    /\ Len(trends) >= 3
    /\ trends[1].count > trends[2].count


-----------------------------------------------------------------------------
(* content_gen.generate_caption and the caption step of main               *)

RECURSIVE SplitFrom(_, _, _)
\* str.split() from position i on, word being the run read so far: the
\* maximal runs of non-whitespace characters.
SplitFrom(s, i, word) ==
    IF i > Len(s) THEN (IF word = <<>> THEN <<>> ELSE <<word>>)
    ELSE IF s[i] \in Whitespace
         THEN (IF word = <<>> THEN <<>> ELSE <<word>>)
                 \o SplitFrom(s, i + 1, <<>>)
         ELSE SplitFrom(s, i + 1, Append(word, s[i]))

Split(s) == SplitFrom(s, 1, <<>>)

RECURSIVE Join(_, _)
\* sep.join(lines)
Join(lines, sep) ==
    IF lines = <<>> THEN <<>>
    ELSE IF Len(lines) = 1 THEN lines[1]
    ELSE lines[1] \o sep \o Join(Tail(lines), sep)

\* A hashtag is made of a word with len(word) > HashtagWordLen.
HashtagWordLen == 2

\* list(topic_hashtags)[:MaxHashtags]
MaxHashtags == 8

CaptionTitle == <<"T","o","d","a","y","'","s"," ","T","o","p"," ","A","I"," ","&"," ","D","e","v","O","p","s"," ","T","r","e","n","d","s">>

\* f"{trend['icon']} {trend['topic']}: {trend['headline']}"
summary_line(trend) ==
    trend.icon \o <<" ">> \o LabelText[trend.topic] \o <<":", " ">>
        \o trend.headline

\* The set topic_hashtags after the loop over the trends.
topic_hashtags(trs) ==
    UNION {{<<"#">> \o word :
               word \in {w \in Range(Split(LabelText[trs[i].topic])) :
                            Len(w) > HashtagWordLen}} :
           i \in 1..Len(trs)}

\* Mutant of hashtag_lists: the list is not cut at MaxHashtags.
hashtag_lists_NoCap(tags) ==
    {[t \in tags |-> 1]}

\* What list(topic_hashtags)[:8] can be.  The order in which Python iterates
\* a set of strings is not fixed, so any MaxHashtags of the tags can be the
\* ones kept.  A list is recorded up to the order of its entries, as the
\* function from an entry to the number of times it occurs.
hashtag_lists(tags) ==
    {[t \in kept |-> 1] :
        kept \in {T \in SUBSET tags :
                     Cardinality(T) = Min(MaxHashtags, Cardinality(tags))}}

\* Mutant of generate_caption: the summary opens with a heading line.
generate_caption_Heading(arts, trs) ==
    LET summary_lines == <<CaptionTitle>>
                            \o [i \in 1..Len(trs) |-> summary_line(trs[i])]
        all_sources ==
            UNION {{arts[trs[i].articles[k]].source :
                       k \in 1..Len(trs[i].articles)} : i \in 1..Len(trs)}
    IN  {[title |-> CaptionTitle,
          summary |-> Join(summary_lines, <<"\n">>),
          hashtags |-> hashtags,
          sources |-> [s \in all_sources |-> 1]] :
            hashtags \in hashtag_lists(topic_hashtags(trs))}

\* The captions generate_caption(trends) can return, as the values that
\* CAPTION_TEMPLATE is filled with.  arts is the article list that the
\* trends' member positions refer to.  sources is ", ".join(all_sources) of
\* a set, recorded like the hashtags.
generate_caption(arts, trs) ==
    LET summary_lines == [i \in 1..Len(trs) |-> summary_line(trs[i])]
        all_sources ==
            UNION {{arts[trs[i].articles[k]].source :
                       k \in 1..Len(trs[i].articles)} : i \in 1..Len(trs)}
    IN  {[title |-> CaptionTitle,
          summary |-> Join(summary_lines, <<"\n">>),
          hashtags |-> hashtags,
          sources |-> [s \in all_sources |-> 1]] :
            hashtags \in hashtag_lists(topic_hashtags(trs))}

\* main: caption = generate_caption(trends), written to caption.txt.
MainCaption ==
    /\ main_pc = "caption"
    /\ caption' \in generate_caption(articles, trends)
    /\ caption_file' = caption'
    /\ main_pc' = "images"
    /\ UNCHANGED <<no_images, image_paths, exit_code, failure>>
    /\ UNCHANGED trend_vars
    /\ UNCHANGED scrape_vars


\* A sample article about data centres; its title holds the two-word key
\* "data center".
S_DataCenter ==
    [title |-> <<"D","a","t","a"," ","c","e","n","t","e","r"," ","p","o","w","e","r">>, description |-> <<>>, link |-> "",
     source |-> "The Verge", published |-> 2,
     keywords |-> <<<<"d","a","t","a">>,<<"c","e","n","t","e","r">>,<<"p","o","w","e","r">>>>,
     entry_categories |-> <<>>, article_text |-> <<>>]

\* The article list that the sample trends were made from.
CaptionArticles ==
    <<A_GptChip, A_Robot, A_Aws, A_News, A_Misc, S_Paint, S_DataCenter>>

\* Trends as analyze_trends builds them from CaptionArticles: a topic trend
\* for an article and one of its topics, a backfill trend for an article
\* without a topic.
CaptionTrends ==
    UNION {IF matched_topics(CaptionArticles[a]) = {}
           THEN {BackfillTrend(CaptionArticles, a)}
           ELSE {TopicTrend(CaptionArticles,
                            [topic |-> t, arts |-> <<a>>, best |-> a],
                            NoResult) :
                    t \in matched_topics(CaptionArticles[a])} :
           a \in 1..Len(CaptionArticles)}

\* Longest trend list that generate_caption is given.
MaxCaptionTrends == 4

\* main has a trend list and is about to compose the caption.  The lists are
\* those of distinct sample trends, the empty list included.
InitCaption ==
    /\ ScrapeIdle
    /\ GEMINI_API_KEY = FALSE
    /\ articles = CaptionArticles
    /\ pc = "done"
    /\ topic_articles = <<>>
    /\ ranked_topics = <<>>
    /\ rank_i = 0
    /\ selected_articles = <<>>
    /\ used_article_titles = {}
    /\ sum_i = 0
    /\ model_i = 0
    /\ attempt = 0
    /\ gemini_log = <<>>
    /\ ai_result = NoResult
    /\ fetch_log = <<>>
    /\ trends \in UNION {Orderings(S) :
                            S \in {T \in SUBSET CaptionTrends :
                                      Cardinality(T) <= MaxCaptionTrends}}
    /\ main_pc = "caption"
    /\ no_images = FALSE
    /\ caption = NoResult
    /\ caption_file = NoResult
    /\ image_paths = 0
    /\ exit_code = NotExited
    /\ failure = "none"

NextCaption == MainCaption

SpecCaption == InitCaption /\ [][NextCaption]_vars

-----------------------------------------------------------------------------
(* Claims C17 and C18: the caption                                         *)

\* C17: generate_caption called with an empty trend list does not fail, and
\* the caption it returns has a non-empty title and an empty summary, an
\* empty hashtag list and an empty source list.
C17_EmptyTrendsCaption ==
    trends = <<>> =>
        /\ generate_caption(articles, trends) # {}
        /\ main_pc = "images" =>
              /\ caption # NoResult
              /\ caption.title # <<>>
              /\ caption.summary = <<>>
              /\ DOMAIN caption.hashtags = {}
              /\ DOMAIN caption.sources = {}

C17_Witness ==
    /\ trends = <<>>
    /\ fetch_log = <<>>
    /\ main_pc = "images"
    /\ caption # NoResult
    /\ caption.title = CaptionTitle

\* The words, over all trends, that a topic hashtag can be made of.
HashtagWords ==
    UNION {{w \in Range(Split(LabelText[trends[i].topic])) :
               Len(w) > HashtagWordLen} : i \in 1..Len(trends)}

\* C18: the hashtag list of the caption has no entry twice and at most 8
\* entries, every entry is "#" followed by a word, longer than 2 characters,
\* of the topic name of some trend, and when there are at most 8 distinct
\* such words every one of them is in the list.
C18_HashtagList ==
    (main_pc = "images" /\ caption # NoResult) =>
        LET tags == caption.hashtags
        IN  /\ \A t \in DOMAIN tags : tags[t] = 1
            /\ Cardinality(DOMAIN tags) <= 8
            /\ \A t \in DOMAIN tags :
                  /\ t[1] = "#"
                  /\ Tail(t) \in HashtagWords
                  /\ Len(Tail(t)) > 2
                  /\ \A c \in Range(Tail(t)) : c \notin Whitespace
            /\ Cardinality(HashtagWords) <= 8 =>
                  \A w \in HashtagWords : (<<"#">> \o w) \in DOMAIN tags

\* The trends have more than 8 distinct words: 8 hashtags are kept.
C18_Witness ==
    /\ main_pc = "images"
    /\ caption # NoResult
    /\ Cardinality(HashtagWords) > 8
    /\ Cardinality(DOMAIN caption.hashtags) = 8

-----------------------------------------------------------------------------
(* Claim C19: a failed full-text fetch                                     *)

\* Articles with a link, next to those of the pool without one.
L_Robot == [A_Robot EXCEPT !.link = "https://a/2"]
L_NewGpt == [A_NewGpt EXCEPT !.link = "https://a/3"]

FetchPool == {A_GptChip, L_Robot, L_NewGpt, A_Aws, A_Misc}

\* Longest article list explored for the fetch, without and with a key.
MaxFetchArticles == 3
MaxKeyedFetchArticles == 2

\* analyze_trends is entered with articles of which some have a link.
InitFetch ==
    /\ ScrapeIdle
    /\ MainIdle
    /\ \/ /\ GEMINI_API_KEY = FALSE
          /\ articles \in SeqsUpTo(FetchPool, MaxFetchArticles)
       \/ /\ GEMINI_API_KEY = TRUE
          /\ articles \in SeqsUpTo(FetchPool, MaxKeyedFetchArticles)
    /\ pc = "start"
    /\ topic_articles = <<>>
    /\ ranked_topics = <<>>
    /\ rank_i = 0
    /\ selected_articles = <<>>
    /\ used_article_titles = {}
    /\ sum_i = 0
    /\ model_i = 0
    /\ attempt = 0
    /\ gemini_log = <<>>
    /\ ai_result = NoResult
    /\ trends = <<>>
    /\ fetch_log = <<>>

SpecFetch == InitFetch /\ [][Next]_vars

\* fetch_article_texts has returned.
Fetched == pc \notin {"start", "select"}

\* The k-th selected representative.
Selected(k) == articles[selected_articles[k].best]

\* C19: after the fetch, whatever it returned for the representatives (the
\* empty text on a failure or for an empty link), the run goes on: the text
\* of every representative is a result of the fetch of its own link; until
\* analyze_trends is done a step is possible; the trends built so far are
\* those of the representatives summarized so far, each with the fallback
\* content of its own article when it is not AI-generated; and at the end
\* every representative has its trend.
C19_FailedFetchNeverAborts ==
    Fetched =>
        /\ \A k \in 1..Len(selected_articles) :
              Selected(k).article_text \in fetch_article_text(Selected(k).link)
        /\ pc # "done" => ENABLED Next
        /\ \A k \in 1..Len(selected_articles) :
              k < sum_i =>
                 /\ Len(trends) >= k
                 /\ trends[k].rep = selected_articles[k].best
                 /\ trends[k].topic = selected_articles[k].topic
                 /\ ~trends[k].ai_generated =>
                       UsesFallback(trends[k], Selected(k))
        /\ pc = "done" => sum_i > Len(selected_articles)

\* Two representatives with a link: the fetch of the first failed, the
\* fetch of the second returned the page, and both have their trend.
C19_Witness ==
    /\ pc = "done"
    /\ Len(selected_articles) >= 2
    /\ Selected(1).link # "" /\ Selected(1).article_text = <<>>
    /\ Selected(2).link # "" /\ Selected(2).article_text # <<>>
    /\ trends[1].rep = selected_articles[1].best
    /\ trends[2].rep = selected_articles[2].best

-----------------------------------------------------------------------------
(* main.main                                                               *)

\* Longest article list that scrape_feeds returns to main.
MaxMainArticles == 2

\* What scrape_feeds can return: its tail (deduplicate, then the sort by
\* published) applied to the articles collected.
ScrapeResults ==
    {LET unique == deduplicate(collected)
     IN  SortedDesc(unique,
                    [i \in 1..Len(unique) |-> <<unique[i].published, 0>>]) :
        collected \in SeqsUpTo(ArticlePool, MaxMainArticles)}

\* generate_carousel: total_slides = min(len(trends) + 1, MaxTotalSlides)
MaxTotalSlides == 6

\* sys.exit(1) after the step named by reason failed.
MainExit(reason) ==
    /\ exit_code' = 1
    /\ failure' = reason
    /\ main_pc' = "exit"

\* Mutant of MainScrape: an empty article list is handed to analyze_trends.
MainScrape_NoEmptyCheck ==
    /\ main_pc = "scrape"
    /\ \/ /\ MainExit("scrape")
          /\ UNCHANGED <<articles, pc>>
       \/ \E found \in ScrapeResults :
             /\ articles' = found
             /\ pc' = "start"
             /\ main_pc' = "analyze"
             /\ failure' = IF found = <<>> THEN "no_articles" ELSE failure
             /\ UNCHANGED exit_code
    /\ UNCHANGED <<no_images, caption, caption_file, image_paths>>
    /\ UNCHANGED <<GEMINI_API_KEY, fetch_log, topic_articles, ranked_topics, rank_i,
                   selected_articles, used_article_titles, sum_i, model_i,
                   attempt, gemini_log, ai_result, trends>>
    /\ UNCHANGED scrape_vars

\* Step 1: scrape_feeds raises, returns no article, or returns the articles
\* with which analyze_trends is then entered.
MainScrape ==
    /\ main_pc = "scrape"
    /\ \/ /\ MainExit("scrape")
          /\ UNCHANGED <<articles, pc>>
       \/ \E found \in ScrapeResults :
             /\ articles' = found
             /\ IF found = <<>>
                THEN /\ MainExit("no_articles")
                     /\ UNCHANGED pc
                ELSE /\ pc' = "start"
                     /\ main_pc' = "analyze"
                     /\ UNCHANGED <<exit_code, failure>>
    /\ UNCHANGED <<no_images, caption, caption_file, image_paths>>
    /\ UNCHANGED <<GEMINI_API_KEY, fetch_log, topic_articles, ranked_topics, rank_i,
                   selected_articles, used_article_titles, sum_i, model_i,
                   attempt, gemini_log, ai_result, trends>>
    /\ UNCHANGED scrape_vars

\* Step 2 fails: analyze_trends raises.  It does while it builds a trend
\* from an AI result whose takeaways value cannot be sliced.
MainAnalyzeRaises ==
    /\ main_pc = "analyze"
    /\ pc = "emit"
    /\ ai_result # NoResult
    /\ pc' = "raised"
    /\ MainExit("analyze")
    /\ UNCHANGED <<no_images, caption, caption_file, image_paths>>
    /\ UNCHANGED <<GEMINI_API_KEY, fetch_log, articles, topic_articles, ranked_topics,
                   rank_i, selected_articles, used_article_titles, sum_i,
                   model_i, attempt, gemini_log, ai_result, trends>>
    /\ UNCHANGED scrape_vars

\* Step 2 ends: analyze_trends has returned; `if not trends: sys.exit(1)`.
MainAnalyzed ==
    /\ main_pc = "analyze"
    /\ pc = "done"
    /\ IF trends = <<>>
       THEN MainExit("no_trends")
       ELSE /\ main_pc' = "caption"
            /\ UNCHANGED <<exit_code, failure>>
    /\ UNCHANGED <<no_images, caption, caption_file, image_paths>>
    /\ UNCHANGED trend_vars
    /\ UNCHANGED scrape_vars

\* Step 3: skipped with --no-images; otherwise generate_carousel raises or
\* returns the paths of the cover and of the trend slides.  Then main ends.
MainImages ==
    /\ main_pc = "images"
    /\ \/ /\ no_images
          /\ image_paths' = 0
          /\ main_pc' = "done"
          /\ exit_code' = 0
          /\ UNCHANGED failure
       \/ /\ ~no_images
          /\ MainExit("images")
          /\ UNCHANGED image_paths
       \/ /\ ~no_images
          /\ image_paths' = Min(Len(trends) + 1, MaxTotalSlides)
          /\ main_pc' = "done"
          /\ exit_code' = 0
          /\ UNCHANGED failure
    /\ UNCHANGED <<no_images, caption, caption_file>>
    /\ UNCHANGED trend_vars
    /\ UNCHANGED scrape_vars

\* main is entered: the arguments are parsed, GEMINI_API_KEY is set or not.
InitMain ==
    /\ ScrapeIdle
    /\ GEMINI_API_KEY \in BOOLEAN
    /\ articles = <<>>
    /\ pc = "off"
    /\ topic_articles = <<>>
    /\ ranked_topics = <<>>
    /\ rank_i = 0
    /\ selected_articles = <<>>
    /\ used_article_titles = {}
    /\ sum_i = 0
    /\ model_i = 0
    /\ attempt = 0
    /\ gemini_log = <<>>
    /\ ai_result = NoResult
    /\ trends = <<>>
    /\ fetch_log = <<>>
    /\ main_pc = "scrape"
    /\ no_images \in BOOLEAN
    /\ caption = NoResult
    /\ caption_file = NoResult
    /\ image_paths = 0
    /\ exit_code = NotExited
    /\ failure = "none"

NextMain ==
    \/ MainScrape
    \/ Next
    \/ MainAnalyzeRaises
    \/ MainAnalyzed
    \/ MainCaption
    \/ MainImages

SpecMain == InitMain /\ [][NextMain]_vars

-----------------------------------------------------------------------------
(* Claim C20: the stop conditions of main                                  *)

\* C20: a run that found no article or identified no trend, and a run in
\* which scraping, trend analysis or image generation failed, has exited
\* with a non-zero code; after the exit no step executes; the caption file
\* is written and images are generated only after articles were found and
\* trends identified; and a failure before the caption leaves no caption
\* file and no image, a failure of the image generation no image.
C20_StopConditions ==
    /\ [](/\ failure # "none" => (exit_code = 1 /\ main_pc = "exit")
          /\ (articles = <<>> /\ main_pc # "scrape") => failure # "none"
          /\ (trends = <<>> /\ main_pc = "analyze" /\ pc = "done")
                => articles = <<>>
          /\ (caption_file # NoResult \/ image_paths > 0) =>
                /\ articles # <<>>
                /\ trends # <<>>
                /\ pc = "done"
                /\ failure \in {"none", "images"}
          /\ failure = "images" => image_paths = 0
          /\ image_paths > 0 => caption_file # NoResult)
    /\ [][exit_code # NotExited => UNCHANGED vars]_vars

\* The run exited because no article was found: nothing was analyzed,
\* written or generated.
C20_Witness ==
    /\ failure = "no_articles"
    /\ exit_code = 1
    /\ pc = "off"
    /\ caption_file = NoResult
    /\ image_paths = 0

-----------------------------------------------------------------------------
(* Claim C21: the ranking                                                  *)

\* Position of a topic in the grouping map's iteration order.
GroupPos(topic) ==
    CHOOSE e \in 1..Len(topic_articles) : topic_articles[e].topic = topic

\* ranked_topics is a permutation of the grouped topics, with non-increasing
\* member count, in which topics of equal count keep their insertion order.
RankedStableSorted ==
    /\ Len(ranked_topics) = Len(topic_articles)
    /\ Range(ranked_topics) = Range(topic_articles)
    /\ \A i, j \in 1..Len(ranked_topics) :
          i < j =>
             /\ Len(ranked_topics[i].arts) >= Len(ranked_topics[j].arts)
             /\ Len(ranked_topics[i].arts) = Len(ranked_topics[j].arts) =>
                   GroupPos(ranked_topics[i].topic)
                      < GroupPos(ranked_topics[j].topic)

\* Every grouping that the article list can yield ranks as this one does.
RankedDeterministic ==
    \A ta \in GroupFrom(articles, 1, <<>>) : RankTopics(ta) = ranked_topics

\* C21: the ranked topic list is a permutation of the grouped topics with
\* non-increasing member count, topics of equal count keep the order in
\* which they were first inserted, and the same article list always yields
\* the same ranked order.
C21_RankedOrderIsFixed ==
    (pc = "select" /\ rank_i = 1) =>
        /\ RankedStableSorted
        /\ RankedDeterministic

-----------------------------------------------------------------------------
(* Claim C22: the candidate window                                         *)

\* Sample articles that together match nine topics: three each for the
\* first two, one each for the others (with S_DataCenter).
W_GptChipRobot ==
    [title |-> <<"G","P","T"," ","c","h","i","p"," ","r","o","b","o","t">>, description |-> <<>>, link |-> "",
     source |-> "Wired", published |-> 5,
     keywords |-> <<<<"g","p","t">>,<<"c","h","i","p">>,<<"r","o","b","o","t">>>>,
     entry_categories |-> <<>>, article_text |-> <<>>]

W_KubeSecDevops ==
    [title |-> <<"K","u","b","e","r","n","e","t","e","s"," ","s","e","c","u","r","i","t","y"," ","d","e","v","o","p","s">>, description |-> <<>>, link |-> "",
     source |-> "TechCrunch", published |-> 4,
     keywords |-> <<<<"k","u","b","e","r","n","e","t","e","s">>,<<"s","e","c","u","r","i","t","y">>,<<"d","e","v","o","p","s">>>>,
     entry_categories |-> <<>>, article_text |-> <<>>]

W_Observability ==
    [title |-> <<"O","b","s","e","r","v","a","b","i","l","i","t","y"," ","t","o","o","l","s">>, description |-> <<>>, link |-> "",
     source |-> "The Verge", published |-> 3,
     keywords |-> <<<<"o","b","s","e","r","v","a","b","i","l","i","t","y">>,<<"t","o","o","l","s">>>>,
     entry_categories |-> <<>>, article_text |-> <<>>]

W_Terraform ==
    [title |-> <<"T","e","r","r","a","f","o","r","m"," ","m","o","d","u","l","e","s">>, description |-> <<>>, link |-> "",
     source |-> "Wired", published |-> 1,
     keywords |-> <<<<"t","e","r","r","a","f","o","r","m">>,<<"m","o","d","u","l","e","s">>>>,
     entry_categories |-> <<>>, article_text |-> <<>>]

WindowPool ==
    {W_GptChipRobot, W_KubeSecDevops, S_DataCenter, W_Observability,
     W_Terraform}

\* Longest article list explored for the window.
MaxWindowArticles == 5

\* analyze_trends is entered, without a key, with a list of distinct sample
\* articles.
InitWindow ==
    /\ ScrapeIdle
    /\ MainIdle
    /\ GEMINI_API_KEY = FALSE
    /\ articles \in UNION {Orderings(S) :
                              S \in {T \in SUBSET WindowPool :
                                        Cardinality(T) <= MaxWindowArticles}}
    /\ pc = "start"
    /\ topic_articles = <<>>
    /\ ranked_topics = <<>>
    /\ rank_i = 0
    /\ selected_articles = <<>>
    /\ used_article_titles = {}
    /\ sum_i = 0
    /\ model_i = 0
    /\ attempt = 0
    /\ gemini_log = <<>>
    /\ ai_result = NoResult
    /\ trends = <<>>
    /\ fetch_log = <<>>

SpecWindow == InitWindow /\ [][NextTakeaways]_vars

\* C22: a topic selected, and a topic of a topic-derived trend, is ranked
\* at a position up to N + 3, however few representatives the window gave;
\* the loop examines no position beyond the window; and once N
\* representatives are selected no further topic is examined.
C22_CandidateWindow ==
    /\ [](/\ \A k \in 1..Len(selected_articles) :
                RankOf(selected_articles[k].topic) <= num_trends + 3
          /\ \A i \in 1..Len(trends) :
                IsTopicTrend(i) =>
                   /\ trends[i].topic = selected_articles[i].topic
                   /\ RankOf(trends[i].topic) <= num_trends + 3
          /\ rank_i <= Min(Len(ranked_topics), num_trends + 3) + 1
          /\ Len(selected_articles) <= num_trends)
    /\ [][Len(selected_articles) >= num_trends =>
             (rank_i' = rank_i /\ selected_articles' = selected_articles)]_vars

\* Nine topics are ranked and the window of seven gave three
\* representatives: the article of the eighth topic is not selected, and it
\* is in a backfill trend.
C22_Witness ==
    /\ pc = "done"
    /\ Len(ranked_topics) > num_trends + 3
    /\ Len(selected_articles) = 3
    /\ \E a \in 1..Len(articles) :
          /\ articles[a] = W_Observability
          /\ ranked_topics[8].arts = <<a>>
          /\ \E i \in 1..Len(trends) : ~IsTopicTrend(i) /\ trends[i].rep = a


-----------------------------------------------------------------------------
(* Claim C23: the representative of a topic                                *)

\* Member m of a topic comes before member n in (description length
\* descending, published descending) order.
Before(m, n) ==
    \/ Len(articles[m].description) > Len(articles[n].description)
    \/ /\ Len(articles[m].description) = Len(articles[n].description)
       /\ articles[m].published > articles[n].published

\* The members of the topic examined whose title is not used yet.
FreeMembers ==
    {m \in Range(ranked_topics[rank_i].arts) :
        articles[m].title \notin used_article_titles}

SelectPool == {A_GptChip, A_NewGpt, W_GptChipRobot, S_Chipotle}

\* Longest article list explored for the selection.
MaxSelectArticles == 3

\* analyze_trends is entered, without a key, with articles that share topics.
InitSelect ==
    /\ ScrapeIdle
    /\ MainIdle
    /\ GEMINI_API_KEY = FALSE
    /\ articles \in SeqsUpTo(SelectPool, MaxSelectArticles)
    /\ pc = "start"
    /\ topic_articles = <<>>
    /\ ranked_topics = <<>>
    /\ rank_i = 0
    /\ selected_articles = <<>>
    /\ used_article_titles = {}
    /\ sum_i = 0
    /\ model_i = 0
    /\ attempt = 0
    /\ gemini_log = <<>>
    /\ ai_result = NoResult
    /\ trends = <<>>
    /\ fetch_log = <<>>

SpecSelect == InitSelect /\ [][NextTakeaways]_vars

\* C23: an iteration of the selection loop examines the next ranked topic.
\* When a member has an unused title, the representative is such a member
\* that no other one comes before, its title becomes used and the selection
\* grows by that topic; when every member's title is used, the topic is
\* skipped: the used titles and the selection stay as they are.
C23_RepresentativeChoice ==
    [][(pc = "select" /\ rank_i' = rank_i + 1) =>
          IF FreeMembers = {}
          THEN /\ used_article_titles' = used_article_titles
               /\ selected_articles' = selected_articles
          ELSE \E b \in FreeMembers :
                  /\ \A m \in FreeMembers : ~Before(m, b)
                  /\ used_article_titles' =
                        used_article_titles \cup {articles[b].title}
                  /\ Len(selected_articles') = Len(selected_articles) + 1
                  /\ SubSeq(selected_articles', 1, Len(selected_articles))
                        = selected_articles
                  /\ selected_articles'[Len(selected_articles')] =
                        [topic |-> ranked_topics[rank_i].topic,
                         arts |-> ranked_topics[rank_i].arts,
                         best |-> b]]_vars

\* Three topics were examined: the representative of the second is not its
\* first candidate, whose title the first topic used, and the third was
\* skipped.
C23_Witness ==
    /\ pc = "select"
    /\ rank_i = 4
    /\ Len(selected_articles) = 2
    /\ selected_articles[2].topic = ranked_topics[2].topic
    /\ \E m \in Range(selected_articles[2].arts) :
          Before(m, selected_articles[2].best)

-----------------------------------------------------------------------------
(* Claim C24: which articles are fetched, and when                         *)

\* The representatives, in selection order.
Representatives ==
    [k \in 1..Len(selected_articles) |-> selected_articles[k].best]

\* C24: nothing is fetched before the selection is over; the fetch is then
\* made for the representatives, each once, and for no other article; every
\* text in the list is that of a fetched article; and from then on, through
\* the summarizer calls and the backfill, nothing more is fetched.
C24_FetchExactlySelected ==
    /\ [](/\ pc \in {"start", "select"} =>
                (fetch_log = <<>> /\ gemini_log = <<>> /\ trends = <<>>)
          /\ pc \notin {"start", "select"} => fetch_log = Representatives
          /\ \A i, j \in 1..Len(fetch_log) :
                i # j => fetch_log[i] # fetch_log[j]
          /\ \A a \in 1..Len(articles) :
                articles[a].article_text # <<>> => a \in Range(fetch_log)
          /\ \A i \in 1..Len(trends) :
                ~IsTopicTrend(i) => trends[i].rep \notin Range(fetch_log))
    /\ [][pc \notin {"start", "select"} =>
             (fetch_log' = fetch_log /\ articles' = articles)]_vars

\* The first summarizer call has returned a result: both representatives
\* were fetched before it.
C24_Witness ==
    /\ pc = "emit"
    /\ sum_i = 1
    /\ ai_result # NoResult
    /\ Len(fetch_log) = 2
    /\ trends = <<>>

-----------------------------------------------------------------------------
(* Claim C25: the content of a topic trend                                 *)

\* A description of 379 characters made of four sentences.
DescSentences == <<"T","h","e"," ","l","a","b"," ","s","a","y","s"," ","t","h","e"," ","m","o","d","e","l"," ","w","r","i","t","e","s"," ","c","o","d","e"," ","a","n","d"," ","c","h","e","c","k","s"," ","i","t"," ","b","e","f","o","r","e"," ","a"," ","p","e","r","s","o","n"," ","r","e","a","d","s"," ","i","t","."," ","E","n","g","i","n","e","e","r","s"," ","a","t"," ","t","h","r","e","e"," ","f","i","r","m","s"," ","r","a","n"," ","i","t"," ","f","o","r"," ","a"," ","m","o","n","t","h"," ","o","n"," ","t","h","e","i","r"," ","o","w","n"," ","r","e","p","o","s","i","t","o","r","i","e","s"," ","a","n","d"," ","k","e","p","t"," ","n","o","t","e","s"," ","o","n"," ","e","v","e","r","y"," ","c","h","a","n","g","e","."," ","M","o","s","t"," ","o","f"," ","t","h","e"," ","c","h","a","n","g","e","s"," ","w","e","r","e"," ","s","m","a","l","l",","," ","a","n","d"," ","t","h","e"," ","r","e","v","i","e","w","e","r","s"," ","a","c","c","e","p","t","e","d"," ","t","h","e"," ","l","a","r","g","e","r"," ","p","a","r","t"," ","o","f"," ","t","h","e","m"," ","w","i","t","h","o","u","t"," ","e","d","i","t","s","."," ","A"," ","f","e","w"," ","w","e","r","e"," ","w","r","o","n","g"," ","i","n"," ","w","a","y","s"," ","t","h","a","t"," ","t","e","s","t","s"," ","d","i","d"," ","n","o","t"," ","c","a","t","c","h",","," ","w","h","i","c","h"," ","t","h","e"," ","l","a","b"," ","s","a","y","s"," ","i","t"," ","w","i","l","l"," ","s","t","u","d","y"," ","i","n"," ","t","h","e"," ","n","e","x","t"," ","r","e","l","e","a","s","e",".">>

\* A description of 373 characters made of one unfinished sentence.
DescUnbroken == <<"T","h","e"," ","l","a","b"," ","d","e","s","c","r","i","b","e","s"," ","i","n"," ","f","u","l","l"," ","h","o","w"," ","t","h","e"," ","m","o","d","e","l"," ","w","r","i","t","e","s"," ","c","o","d","e"," ","a","n","d"," ","c","h","e","c","k","s"," ","i","t"," ","b","e","f","o","r","e"," ","a"," ","p","e","r","s","o","n"," ","r","e","a","d","s"," ","i","t"," ","a","n","d"," ","h","o","w"," ","e","n","g","i","n","e","e","r","s"," ","a","t"," ","t","h","r","e","e"," ","f","i","r","m","s"," ","r","a","n"," ","i","t"," ","f","o","r"," ","a"," ","m","o","n","t","h"," ","o","n"," ","t","h","e","i","r"," ","o","w","n"," ","r","e","p","o","s","i","t","o","r","i","e","s"," ","w","h","i","l","e"," ","t","h","e","y"," ","k","e","p","t"," ","n","o","t","e","s"," ","o","n"," ","e","v","e","r","y"," ","c","h","a","n","g","e"," ","t","h","a","t"," ","i","t"," ","p","r","o","p","o","s","e","d"," ","a","n","d"," ","o","n"," ","w","h","e","t","h","e","r"," ","t","h","e"," ","r","e","v","i","e","w","e","r","s"," ","a","c","c","e","p","t","e","d"," ","t","h","e"," ","c","h","a","n","g","e"," ","w","i","t","h","o","u","t"," ","a","n","y"," ","e","d","i","t","s"," ","o","r"," ","s","e","n","t"," ","i","t"," ","b","a","c","k"," ","w","i","t","h"," ","c","o","m","m","e","n","t","s"," ","t","h","a","t"," ","t","h","e"," ","m","o","d","e","l"," ","t","h","e","n"," ","h","a","d"," ","t","o"," ","a","d","d","r","e","s","s"," ","i","n"," ","a"," ","s","e","c","o","n","d"," ","r","o","u","n","d">>

I_Sentences ==
    [title |-> <<"N","e","w"," ","G","P","T">>, description |-> DescSentences, link |-> "https://a/4",
     source |-> "Wired", published |-> 4,
     keywords |-> <<<<"g","p","t">>,<<"l","a","b">>,<<"m","o","d","e","l">>,<<"w","r","i","t","e","s">>,<<"c","o","d","e">>,<<"c","h","e","c","k","s">>,<<"p","e","r","s","o","n">>,<<"r","e","a","d","s">>,<<"e","n","g","i","n","e","e","r","s">>,<<"t","h","r","e","e">>,<<"f","i","r","m","s">>,<<"r","a","n">>,<<"m","o","n","t","h">>,<<"r","e","p","o","s","i","t","o","r","i","e","s">>,<<"k","e","p","t">>,<<"n","o","t","e","s">>,<<"c","h","a","n","g","e">>,<<"c","h","a","n","g","e","s">>,<<"s","m","a","l","l">>,<<"r","e","v","i","e","w","e","r","s">>,<<"a","c","c","e","p","t","e","d">>,<<"l","a","r","g","e","r">>,<<"p","a","r","t">>,<<"t","h","e","m">>,<<"w","i","t","h","o","u","t">>,<<"e","d","i","t","s">>,<<"w","r","o","n","g">>,<<"w","a","y","s">>,<<"t","e","s","t","s">>,<<"c","a","t","c","h">>,<<"l","a","b">>,<<"s","t","u","d","y">>,<<"n","e","x","t">>,<<"r","e","l","e","a","s","e">>>>,
     entry_categories |-> <<>>, article_text |-> <<>>]

I_Unbroken ==
    [title |-> <<"R","o","b","o","t">>, description |-> DescUnbroken, link |-> "",
     source |-> "TechCrunch", published |-> 3,
     keywords |-> <<<<"r","o","b","o","t">>,<<"l","a","b">>,<<"d","e","s","c","r","i","b","e","s">>,<<"f","u","l","l">>,<<"m","o","d","e","l">>,<<"w","r","i","t","e","s">>,<<"c","o","d","e">>,<<"c","h","e","c","k","s">>,<<"p","e","r","s","o","n">>,<<"r","e","a","d","s">>,<<"e","n","g","i","n","e","e","r","s">>,<<"t","h","r","e","e">>,<<"f","i","r","m","s">>,<<"r","a","n">>,<<"m","o","n","t","h">>,<<"r","e","p","o","s","i","t","o","r","i","e","s">>,<<"w","h","i","l","e">>,<<"k","e","p","t">>,<<"n","o","t","e","s">>,<<"c","h","a","n","g","e">>,<<"p","r","o","p","o","s","e","d">>,<<"w","h","e","t","h","e","r">>,<<"r","e","v","i","e","w","e","r","s">>,<<"a","c","c","e","p","t","e","d">>,<<"c","h","a","n","g","e">>,<<"w","i","t","h","o","u","t">>,<<"a","n","y">>,<<"e","d","i","t","s">>,<<"s","e","n","t">>,<<"b","a","c","k">>,<<"c","o","m","m","e","n","t","s">>,<<"m","o","d","e","l">>,<<"a","d","d","r","e","s","s">>,<<"s","e","c","o","n","d">>,<<"r","o","u","n","d">>>>,
     entry_categories |-> <<>>, article_text |-> <<>>]

InsightPool == {I_Sentences, I_Unbroken, A_GptChip}

\* Longest article list explored for the trend content.
MaxInsightArticles == 2

\* analyze_trends is entered, with or without a key, with articles of which
\* some have a description longer than InsightMaxLen.
InitInsight ==
    /\ ScrapeIdle
    /\ MainIdle
    /\ GEMINI_API_KEY \in BOOLEAN
    /\ articles \in SeqsUpTo(InsightPool, MaxInsightArticles)
    /\ pc = "start"
    /\ topic_articles = <<>>
    /\ ranked_topics = <<>>
    /\ rank_i = 0
    /\ selected_articles = <<>>
    /\ used_article_titles = {}
    /\ sum_i = 0
    /\ model_i = 0
    /\ attempt = 0
    /\ gemini_log = <<>>
    /\ ai_result = NoResult
    /\ trends = <<>>
    /\ fetch_log = <<>>

SpecInsight == InitInsight /\ [][Next]_vars

\* The iteration for a representative has just appended its trend;
\* ai_result is what the summarizer returned for it, NoResult when it
\* failed or was not called.
JustEmitted == pc = "summarize" /\ sum_i > 1

\* Everything that C25 says of the trend just emitted, but for the insight
\* of the fallback.
TrendContentButInsight ==
    LET t == trends[sum_i - 1]
        best == articles[selected_articles[sum_i - 1].best]
    IN  /\ t.ai_generated <=> ai_result # NoResult
        /\ ~GEMINI_API_KEY => ~t.ai_generated
        /\ t.ai_generated =>
              /\ t.headline = ai_result.headline
              /\ t.insight = ai_result.insight
              /\ Len(t.takeaways) <= 3
              /\ t.takeaways =
                    SubSeq(ai_result.takeaways, 1, Len(t.takeaways))
              /\ Len(t.takeaways) = 3 \/ t.takeaways = ai_result.takeaways
        /\ ~t.ai_generated =>
              /\ t.headline = best.title
              /\ t.takeaways =
                    _extract_takeaways_from_text(best.article_text,
                                                 best.description)

\* insight is description, truncated to 300 characters at a sentence
\* boundary: the description itself when it has at most 300 characters,
\* otherwise a prefix of at most 300 characters that ends with the mark
\* that closes a sentence.
TruncatedAtSentenceBoundary(insight, description) ==
    IF Len(description) <= 300 THEN insight = description
    ELSE /\ Len(insight) <= 300
         /\ insight # <<>>
         /\ insight = SubSeq(description, 1, Len(insight))
         /\ insight[Len(insight)] \in {".", "!", "?"}
         /\ description[Len(insight) + 1] = " "

\* C25: a topic trend is AI-generated exactly when the summarizer returned
\* a result for its representative, and then headline, insight and the
\* takeaways (at most 3) are the summarizer's; otherwise the headline is the
\* representative's title, the insight is its description truncated to 300
\* characters at a sentence boundary, and the takeaways are those extracted
\* from its fetched text.
C25_TopicTrendContent ==
    JustEmitted =>
        /\ TrendContentButInsight
        /\ ~trends[sum_i - 1].ai_generated =>
              TruncatedAtSentenceBoundary(
                  trends[sum_i - 1].insight,
                  articles[selected_articles[sum_i - 1].best].description)

-----------------------------------------------------------------------------
(* Claim C26: the backfill trends                                          *)

\* C26: a backfill trend has the title of its article as headline, the
\* truncated description as insight, no takeaways, ai_generated false,
\* count 1, and as topic the first entry category of the article, or
\* "Tech News" when it has none; and the backfill calls no summarizer: a
\* model is called only for a selected representative, before any backfill
\* trend exists, and the step that adds the backfill trends ends
\* analyze_trends.
C26_BackfillTrends ==
    /\ [](/\ \A i \in 1..Len(trends) :
                ~IsTopicTrend(i) =>
                   LET t == trends[i]
                       article == articles[t.rep]
                   IN  /\ t.headline = article.title
                       /\ t.insight =
                             truncate_at_sentence(article.description, 300, 80)
                       /\ t.takeaways = <<>>
                       /\ t.ai_generated = FALSE
                       /\ t.count = 1
                       /\ t.articles = <<t.rep>>
                       /\ t.topic = IF article.entry_categories # <<>>
                                    THEN article.entry_categories[1]
                                    ELSE "Tech News"
          /\ pc = "gemini" =>
                /\ sum_i <= Len(selected_articles)
                /\ Len(trends) < sum_i)
    /\ [][Len(trends') > Len(selected_articles) =>
             (pc = "summarize" /\ pc' = "done" /\ gemini_log' = <<>>)]_vars

\* With a key: the first trend is AI-generated, and a backfill trend
\* carries the first entry category of its article.
C26_Witness ==
    /\ pc = "done"
    /\ GEMINI_API_KEY
    /\ Len(selected_articles) = 1
    /\ trends[1].ai_generated
    /\ Len(trends) = 2
    /\ trends[2].topic = "Gadgets"
-----------------------------------------------------------------------------
(* Duplicate starts in the extractive fallback (checked under SpecTakeaways) *)

\* The sentences the filtering loop looks at, and the description prefix it
\* compares them with.
LoopSentences(article_text) ==
    LET all == SplitSentences(article_text)
    IN  IF Len(all) > 4 THEN SubSeq(all, 3, Len(all)) ELSE SubSeq(all, 2, Len(all))
LoopDesc(description) == Take(Lower(description), DescKeep)

RECURSIVE KeptAfterAccepted(_, _, _, _)
\* The candidates when a sentence counts as a duplicate only of a sentence
\* accepted before it.
KeptAfterAccepted(sentences, i, desc_lower, candidates) ==
    IF i > Len(sentences) THEN candidates
    ELSE LET s == Strip(sentences[i])
             s_lower == Lower(s)
             start == Take(s_lower, StartLen)
             accepted == {Take(Lower(candidates[k]), StartLen) : k \in 1..Len(candidates)}
             keep == /\ Len(s) >= SentenceMinLen
                     /\ Len(s) <= SentenceMaxLen
                     /\ ~ \E p \in 1..Len(skip_patterns) : Contains(s_lower, skip_patterns[p])
                     /\ start \notin accepted
                     /\ ~ (/\ desc_lower # <<>>
                           /\ RatioAbove(Take(s_lower, CompareLen),
                                         Take(desc_lower, CompareLen), 5, 10))
         IN  KeptAfterAccepted(sentences, i + 1, desc_lower,
                               IF keep THEN Append(candidates, s) ELSE candidates)

\* C27: for every article summarized by the extractive fallback, a sentence
\* is dropped as a duplicate only when its first 30 lowercased characters
\* are those of a sentence accepted before it: the candidates of the
\* filtering loop are the ones kept when a sentence rejected as too similar
\* to the description leaves no trace.
C27_DuplicateOfAcceptedOnly ==
    \A i \in 1..Len(trends) :
        (i <= Len(selected_articles) /\ ~ trends[i].ai_generated) =>
            LET best == articles[trends[i].rep]
                sentences == LoopSentences(best.article_text)
                desc_lower == LoopDesc(best.description)
            IN  Len(best.article_text) >= TakeawayMinText =>
                    FilterSentences(sentences, 1, desc_lower, {}, <<>>)
                        = KeptAfterAccepted(sentences, 1, desc_lower, <<>>)

-----------------------------------------------------------------------------
(* What analyze_trends changes in its input (checked under SpecFetch)      *)

\* Article a with its text left out.
WithoutText(a) == [a EXCEPT !.article_text = <<>>]

\* The positions of the articles of the backfill trends.
BackfillArticles ==
    {trends[i].rep : i \in {i \in 1..Len(trends) : ~IsTopicTrend(i)}}

\* C28: no step of analyze_trends changes the length or the order of the
\* input list or any field of an article other than article_text, and the
\* article_text it changes is that of a selected representative; the
\* article of a backfill trend is no representative, and its text is never
\* changed.
C28_OnlyRepresentativeTextChanges ==
    /\ [](BackfillArticles \cap Range(Representatives) = {})
    /\ [][/\ Len(articles') = Len(articles)
          /\ \A a \in 1..Len(articles) :
                /\ WithoutText(articles'[a]) = WithoutText(articles[a])
                /\ articles'[a].article_text # articles[a].article_text =>
                      /\ a \in Range(Representatives)
                      /\ selected_articles' = selected_articles
                /\ (a \in BackfillArticles \/ a \in BackfillArticles') =>
                      articles'[a].article_text = articles[a].article_text]_vars

\* The run is over: the representative in third place has its text, and of
\* the two articles before it, which have the same title and a link, one
\* was not selected and has no text.
C28_Witness ==
    /\ pc = "done"
    /\ Len(articles) = 3
    /\ articles[3].article_text = BodyText
    /\ 3 \in Range(Representatives)
    /\ \E a \in 1..2 :
          /\ a \notin Range(Representatives)
          /\ articles[a].link # ""
          /\ articles[a].article_text = <<>>
    /\ WithoutText(articles[1]) = L_Robot
    /\ WithoutText(articles[2]) = L_Robot
    /\ WithoutText(articles[3]) = L_NewGpt

-----------------------------------------------------------------------------
(* The carousel (checked under SpecCarousel)                               *)

\* generate_carousel(trends): the paths of the images it saves, in order;
\* a path is given by the number in its name and the topic it is named
\* after.
total_slides(trs) == Min(Len(trs) + 1, MaxTotalSlides)
generate_carousel(trs) ==
    <<[slide |-> 1, topic |-> "cover"]>>
        \o [i \in 1..Min(Len(trs), total_slides(trs) - 1) |->
               [slide |-> i + 1, topic |-> trs[i].topic]]

\* The trends given to generate_carousel: a topic trend and a backfill
\* trend, in lists in which a trend may occur several times.
CarouselTrends ==
    {TopicTrend(CaptionArticles, [topic |-> "AI & LLMs", arts |-> <<1>>, best |-> 1],
                NoResult),
     BackfillTrend(CaptionArticles, 5)}

\* Longest trend list that generate_carousel is given.
MaxCarouselTrends == 6

\* generate_carousel is about to be called on a trend list.
InitCarousel ==
    /\ ScrapeIdle
    /\ GEMINI_API_KEY = FALSE
    /\ articles = CaptionArticles
    /\ pc = "done"
    /\ topic_articles = <<>>
    /\ ranked_topics = <<>>
    /\ rank_i = 0
    /\ selected_articles = <<>>
    /\ used_article_titles = {}
    /\ sum_i = 0
    /\ model_i = 0
    /\ attempt = 0
    /\ gemini_log = <<>>
    /\ ai_result = NoResult
    /\ fetch_log = <<>>
    /\ trends \in SeqsUpTo(CarouselTrends, MaxCarouselTrends)
    /\ main_pc = "images"
    /\ no_images = FALSE
    /\ caption = NoResult
    /\ caption_file = NoResult
    /\ image_paths = 0
    /\ exit_code = NotExited
    /\ failure = "none"

\* The call returns the list of the paths.
GenerateCarousel ==
    /\ main_pc = "images"
    /\ image_paths' = Len(generate_carousel(trends))
    /\ main_pc' = "done"
    /\ UNCHANGED <<no_images, caption, caption_file, exit_code, failure>>
    /\ UNCHANGED trend_vars
    /\ UNCHANGED scrape_vars

NextCarousel == GenerateCarousel

SpecCarousel == InitCarousel /\ [][NextCarousel]_vars

\* C29: whatever the trend list, generate_carousel returns exactly
\* 1 + min(number of trends, 4) image paths, so never more than
\* NUM_CAROUSEL_SLIDES = 5.
C29_AtMostFiveImages ==
    main_pc = "done" =>
        /\ image_paths = 1 + Min(Len(trends), NUM_CAROUSEL_SLIDES - 1)
        /\ image_paths <= NUM_CAROUSEL_SLIDES

-----------------------------------------------------------------------------
(* The number of trends returned (checked under Spec)                      *)

\* The titles of the input list.
Titles == {articles[a].title : a \in 1..Len(articles)}

\* C30: analyze_trends returns min(num_trends, D) trends, D being the number
\* of distinct titles of the input list, with or without a key and whatever
\* the summarizer answers; so the list returned is empty only for an empty
\* input, which is why main, once it has articles, never stops for want of
\* trends.
C30_TrendCount ==
    pc = "done" =>
        /\ Len(trends) = Min(num_trends, Cardinality(Titles))
        /\ trends = <<>> <=> articles = <<>>

\* Four articles with two titles between them gave two trends, one of them
\* a backfill trend.
C30_Witness ==
    /\ pc = "done"
    /\ Len(articles) = 4
    /\ Cardinality(Titles) = 2
    /\ Len(trends) = 2
    /\ Len(selected_articles) = 1

=============================================================================
